---- MODULE Spec2Model ----
\* Model of the authkit-remix session lifecycle: authkitLoader (session.ts),
\* updateSession, handleAuthLoader and the helpers they call.
\*
\* Values that JavaScript may hold as null/undefined are records, so that a
\* string, a sealed session and null can be compared with each other.
EXTENDS Integers, Sequences, FiniteSets, TLC

\* ---------------------------------------------------------------- bounds

\* Number of requests the client sends one after the other (the cookie jar is
\* carried from one request to the next).
MaxRequests == 2

\* ---------------------------------------------------------------- values

Null == [kind |-> "null"]
Undefined == [kind |-> "undefined"]
Str(s) == [kind |-> "string", value |-> s]
Bool(b) == [kind |-> "boolean", value |-> b]

\* A string built by concatenation: the sequence of its parts.
Concat(parts) == [kind |-> "string", parts |-> parts]

\* x ?? d, and the destructuring default `x = d` (applies to undefined only)
Default(x, d) == IF x = Undefined THEN d ELSE x

\* An access token is a JWT: a token identity plus the payload it carries.
Jwt(n, sid, org, role, perms, ents) ==
    [kind |-> "jwt", jti |-> n, sid |-> sid, org_id |-> org, role |-> role,
     permissions |-> perms, entitlements |-> ents]

AccessTokens ==
    { Jwt(1, Str("sid-1"), Str("org-1"), Str("admin"), Str("[read,write]"), Str("[premium]")),
      Jwt(2, Str("sid-2"), Undefined, Undefined, Undefined, Undefined) }

RefreshTokens == { Str("rt-1"), Str("rt-2") }

Users == { Str("user-1") }

Impersonators == { Undefined, Str("impersonator-1") }

ProviderErrors == { Str("invalid_grant"), Str("network") }

\* decodeJwt + renaming of the payload fields
getClaimsFromAccessToken(accessToken) ==
    [sessionId      |-> accessToken.sid,
     organizationId |-> accessToken.org_id,
     role           |-> accessToken.role,
     permissions    |-> accessToken.permissions,
     entitlements   |-> accessToken.entitlements,
     exp            |-> IF "exp" \in DOMAIN accessToken
                          THEN [kind |-> "number", value |-> accessToken.exp]
                          ELSE Undefined]

\* ---------------------------------------------------------------- headers

\* A header list is a sequence of <<name, value>>; names are lower case.
NoHeaders == << >>

RECURSIVE HeaderValues(_, _)
HeaderValues(h, name) ==
    IF h = << >> THEN << >>
    ELSE (IF h[1][1] = name THEN << h[1][2] >> ELSE << >>) \o HeaderValues(Tail(h), name)

\* HeadersInit, as a handler or the loader writes it: a Headers instance
\* (a header list), a plain object (a list of <<key, value>> with distinct keys,
\* a value being a string, an array of strings or undefined) or an array of
\* [name, value] tuples.
HeadersInit(rep, entries) == [kind |-> "HeadersInit", rep |-> rep, entries |-> entries]

\* {} as a Record<string, string>
EmptyHeadersObject == HeadersInit("object", NoHeaders)

\* Headers.append
Append2(h, name, value) == Append(h, << name, value >>)

\* ---------------------------------------------------------------- session codec

\* sealData(session, {password, ttl: 0}): the whole record given is serialised
\* (JSON drops undefined members) and sealed.
SealData(obj) == [kind |-> "sealed", ttl |-> 0, payload |-> obj]

encryptSession(session) == SealData(session)

\* unsealData of a value produced by sealData with the same password
UnsealData(sealed) == sealed.payload

SessionRecord(at, rt, user, imp, headers) ==
    [accessToken |-> at, refreshToken |-> rt, user |-> user,
     impersonator |-> imp, headers |-> headers]

\* ---------------------------------------------------------------- cookie storage

\* The session object of the storage: one key, jwt.
GetSession(cookieHeader) == [jwt |-> cookieHeader]
SessionHas(cookieSession) == cookieSession.jwt # Undefined
SessionSet(cookieSession, value) == [cookieSession EXCEPT !.jwt = value]
CommitSession(cookieSession) == [kind |-> "commit", jwt |-> cookieSession.jwt]
DestroySession(cookieSession) == [kind |-> "destroy"]

\* What the callback route seals after a code exchange (headers: {}).
SealedByCallback ==
    { encryptSession(SessionRecord(at, rt, u, imp, EmptyHeadersObject)) :
        at \in AccessTokens, rt \in {Str("rt-1")}, u \in Users, imp \in Impersonators }

InitialCookies == { Undefined } \cup SealedByCallback

\* getSessionFromCookie
getSessionFromCookie(cookieHeader) ==
    LET s == GetSession(cookieHeader)
    IN  IF SessionHas(s) THEN UnsealData(s.jwt) ELSE Null

\* ---------------------------------------------------------------- URLs

\* The origin of the application, where the callback route is served
AppOrigin == "https://app.example"

\* A host that is not the application's, as an absolute and as a
\* protocol-relative prefix of a URL
OtherOrigin == "https://evil.example"
ProtocolRelative == "//evil.example"

\* The URLs of the requests: a path and the query parameters; a path may
\* start with two slashes.
RequestUrls ==
    { [pathname |-> << "/" >>, searchParams |-> << >>],
      [pathname |-> << "/", "dashboard" >>, searchParams |-> << << "tab", "1" >> >>],
      [pathname |-> << ProtocolRelative, "/", "x" >>, searchParams |-> << << "a", "b" >> >>] }

\* URLSearchParams.toString
RECURSIVE SearchParamsToString(_)
SearchParamsToString(params) ==
    IF params = << >> THEN << >>
    ELSE << params[1][1], "=", params[1][2] >>
         \o (IF Len(params) > 1 THEN << "&" >> ELSE << >>)
         \o SearchParamsToString(Tail(params))

\* Mutant: the query string is left out of the return path
getReturnPathname_DropsQuery(url) == Concat(url.pathname)

getReturnPathname(url) ==
    Concat(url.pathname \o
          (IF Len(url.searchParams) > 0
             THEN << "?" >> \o SearchParamsToString(url.searchParams)
             ELSE << >>))

\* JSON.parse(atob(state)).returnPathname
DecodeState(state) == state.of.of.returnPathname

\* btoa(JSON.stringify({ returnPathname }))
EncodeState(returnPathname) ==
    [kind |-> "base64", of |-> [kind |-> "json", of |-> [returnPathname |-> returnPathname]]]

\* getAuthorizationUrl(options): the URL the provider SDK builds
getAuthorizationUrl(returnPathname, organizationId) ==
    [kind           |-> "authorizationUrl",
     provider       |-> "authkit",
     state          |-> IF returnPathname.kind = "string" /\ returnPathname.parts # << >>
                          THEN EncodeState(returnPathname) ELSE Undefined,
     organizationId |-> organizationId]

\* ---------------------------------------------------------------- responses

NoBody == [kind |-> "nobody"]

Response(status, statusText, headers, body) ==
    [type |-> "Response", status |-> status, statusText |-> statusText,
     headers |-> headers, body |-> body, bodyUsed |-> FALSE]

\* redirect(url, init): status 302, the headers of init, then Location set
Redirect(url, headers) == Response(302, "", Append2(headers, "location", url), NoBody)

\* data(value, init)
Data(value, init) == [type |-> "DataWithResponseInit", data |-> value, init |-> init]

ResponseInit(headers, status, statusText) ==
    [headers |-> headers, status |-> status, statusText |-> statusText]

isResponse(x) == "type" \in DOMAIN x /\ x.type = "Response"

\* Mutant: status 300 is not taken for a redirect
isRedirect_Above300(res) == res.status > 300 /\ res.status < 400

isRedirect(res) == res.status >= 300 /\ res.status < 400

isDataWithResponseInit(x) == "type" \in DOMAIN x /\ x.type = "DataWithResponseInit"

ArrayOf(items) == [kind |-> "array", items |-> items]

IsArray(v) == v.kind = "array"

\* JavaScript truthiness of a header value
Truthy(v) == v.kind # "undefined" /\ v.kind # "null" /\ v # Str("")

\* obj[key] of a plain object
RECURSIVE ObjGet(_, _)
ObjGet(entries, key) ==
    IF entries = << >> THEN Undefined
    ELSE IF entries[1][1] = key THEN entries[1][2] ELSE ObjGet(Tail(entries), key)

RECURSIVE AppendAll(_, _, _)
AppendAll(h, name, items) ==
    IF items = << >> THEN h
    ELSE AppendAll(Append2(h, name, items[1]), name, Tail(items))

\* Headers.prototype.forEach visits one entry per name, the values of a name
\* joined, except Set-Cookie whose values are visited one by one.
Joined(values) == IF Len(values) = 1 THEN values[1] ELSE [kind |-> "joined", values |-> values]

RECURSIVE HeadersForEach(_, _)
HeadersForEach(h, seen) ==
    IF h = << >> THEN << >>
    ELSE LET name == h[1][1]
         IN  IF name = "set-cookie"
               THEN << h[1] >> \o HeadersForEach(Tail(h), seen)
             ELSE IF name \in seen
               THEN HeadersForEach(Tail(h), seen)
             ELSE << << name, Joined(HeaderValues(h, name)) >> >>
                  \o HeadersForEach(Tail(h), seen \cup {name})

\* new Headers(init), for the representations the loader itself produces
\* (a Headers instance or a plain object of strings) and for tuples
NewHeaders(init) ==
    IF init.kind # "HeadersInit" THEN NoHeaders ELSE init.entries

\* ---------------------------------------------------------------- data objects

\* A JavaScript object: its own enumerable keys and their values.
Obj(fields) == [kind |-> "object", fields |-> fields]

Keys(o) == DOMAIN o.fields

\* Mutant: keys already in the target are kept
ObjectAssign_TargetWins(target, source) ==
    IF source.kind # "object" THEN target
    ELSE Obj([k \in Keys(target) \cup Keys(source) |->
                 IF k \in Keys(target) THEN target.fields[k] ELSE source.fields[k]])

\* Object.assign(target, source): null and undefined sources are skipped,
\* own keys of the source overwrite those of the target.
ObjectAssign(target, source) ==
    IF source.kind # "object" THEN target
    ELSE Obj([k \in Keys(target) \cup Keys(source) |->
                 IF k \in Keys(source) THEN source.fields[k] ELSE target.fields[k]])

EmptyObject == Obj(<< >>)

\* JSON.stringify / Response.json() of a body text
JsonStringify(value) == [kind |-> "json", of |-> value]
IsJsonText(text) == text.kind = "json"
JsonParse(text) == text.of

Body(text) == [kind |-> "body", text |-> text]

\* Content-Type announces JSON
isJsonResponse(res) ==
    \E i \in 1..Len(res.headers) :
        res.headers[i] = << "content-type", Str("application/json") >>

\* ---------------------------------------------------------------- handleAuthLoader

Returned(value) == [how |-> "return", value |-> value]
Thrown(value) == [how |-> "throw", value |-> value]

\* session?.headers?.['Set-Cookie']
SessionSetCookie(session) ==
    IF session = Undefined \/ session.headers = Undefined THEN Undefined
    ELSE ObjGet(session.headers.entries, "set-cookie")

\* data(..., session ? { headers: { ...session.headers } } : undefined)
SessionInit(session) ==
    IF session = Undefined THEN Undefined
    ELSE ResponseInit(HeadersInit("object",
                                  IF session.headers = Undefined THEN NoHeaders
                                  ELSE session.headers.entries),
                      Undefined, Undefined)

\* Object.entries(origHeaders).forEach(...) of the plain-object branch; an
\* array of tuples is an object too, its entries are (index, [name, value]).
RECURSIVE AppendObjectEntries(_, _)
AppendObjectEntries(h, entries) ==
    IF entries = << >> THEN h
    ELSE LET key == entries[1][1]
             value == entries[1][2]
             h1 == IF IsArray(value) THEN AppendAll(h, key, value.items)
                   ELSE IF Truthy(value) THEN Append2(h, key, value)
                   ELSE h
         IN  AppendObjectEntries(h1, Tail(entries))

IndexKey(i) == << "0", "1", "2", "3" >>[i + 1]

RECURSIVE TupleEntries(_, _)
TupleEntries(tuples, index) ==
    IF tuples = << >> THEN << >>
    ELSE << << IndexKey(index), ArrayOf(<< Str(tuples[1][1]), tuples[1][2] >>) >> >>
         \o TupleEntries(Tail(tuples), index + 1)

\* The handler's headers copied into a fresh Headers object
CopyOrigHeaders(init) ==
    IF init = Undefined \/ init.headers = Undefined THEN NoHeaders
    ELSE IF init.headers.rep = "Headers"
      THEN HeadersForEach(init.headers.entries, {})
    ELSE IF init.headers.rep = "object"
      THEN AppendObjectEntries(NoHeaders, init.headers.entries)
    ELSE AppendObjectEntries(NoHeaders, TupleEntries(init.headers.entries, 0))

\* Add session cookie if present
AppendSessionCookie(h, session) ==
    IF Truthy(SessionSetCookie(session))
      THEN Append2(h, "set-cookie", SessionSetCookie(session))
      ELSE h

MergeDataWithResponseInit(dataResponse, auth, session) ==
    LET mergedHeaders == AppendSessionCookie(CopyOrigHeaders(dataResponse.init), session)
        init == dataResponse.init
    IN  Data(ObjectAssign(ObjectAssign(EmptyObject, dataResponse.data), auth),
             ResponseInit(HeadersInit("Headers", mergedHeaders),
                          IF init = Undefined THEN Undefined ELSE init.status,
                          IF init = Undefined THEN Undefined ELSE init.statusText))

\* new Response(loaderResult.body, loaderResult) and the cookie appended
NewResponse(loaderResult, session) ==
    [loaderResult EXCEPT !.headers = AppendSessionCookie(loaderResult.headers, session)]

MergeResponse(loaderResult, auth, session) ==
    LET newResponse == NewResponse(loaderResult, session)
    IN  IF ~isJsonResponse(newResponse) THEN newResponse
        ELSE \* newResponse.json() reads the body to its end, then parses
             IF newResponse.body.kind = "body" /\ IsJsonText(newResponse.body.text)
               THEN Data(ObjectAssign(ObjectAssign(EmptyObject, JsonParse(newResponse.body.text)), auth),
                         ResponseInit(HeadersInit("Headers", newResponse.headers),
                                      newResponse.status, newResponse.statusText))
               ELSE [newResponse EXCEPT !.bodyUsed = (newResponse.body # NoBody)]

MergePlain(loaderResult, auth, session) ==
    Data(ObjectAssign(ObjectAssign(EmptyObject, loaderResult.value), auth), SessionInit(session))

\* Mutant: what the handler throws is swallowed
handleAuthLoader_SwallowsErrors(loader, auth, session) ==
    IF loader = Undefined THEN Returned(Data(auth, SessionInit(session)))
    ELSE IF loader.how = "throw" THEN Returned(Data(auth, SessionInit(session)))
    ELSE LET loaderResult == loader.value
         IN  IF isDataWithResponseInit(loaderResult)
               THEN Returned(MergeDataWithResponseInit(loaderResult, auth, session))
             ELSE IF isResponse(loaderResult)
               THEN IF isRedirect(loaderResult)
                      THEN Thrown(loaderResult)
                      ELSE Returned(MergeResponse(loaderResult, auth, session))
             ELSE Returned(MergePlain(loaderResult, auth, session))

\* handleAuthLoader(loader, args, auth, session): `loader` is Undefined or
\* what the handler does when called (returns or throws a value).
handleAuthLoader(loader, auth, session) ==
    IF loader = Undefined THEN Returned(Data(auth, SessionInit(session)))
    ELSE IF loader.how = "throw" THEN Thrown(loader.value)
    ELSE LET loaderResult == loader.value
         IN  IF isDataWithResponseInit(loaderResult)
               THEN Returned(MergeDataWithResponseInit(loaderResult, auth, session))
             ELSE IF isResponse(loaderResult)
               THEN IF isRedirect(loaderResult)
                      THEN Thrown(loaderResult)
                      ELSE Returned(MergeResponse(loaderResult, auth, session))
             ELSE Returned(MergePlain(loaderResult, auth, session))

\* ---------------------------------------------------------------- what handlers do

HandlerObjects ==
    { Obj([customData |-> Str("test-value")]),
      Obj([customData |-> Str("test-value"), user |-> Str("custom-user"),
           accessToken |-> Str("custom-token")]) }

Plain(value) == [type |-> "plain", value |-> value]

HandlerCookie == << "set-cookie", Str("handler-cookie") >>

HandlerInits ==
    { Undefined,
      ResponseInit(Undefined, 201, "Created"),
      ResponseInit(HeadersInit("object", << << "x-custom", Str("a") >>, HandlerCookie >>),
                   201, "Created"),
      ResponseInit(HeadersInit("object", << << "x-multi", ArrayOf(<< Str("a"), Str("b") >>) >>,
                                            << "x-empty", Undefined >> >>),
                   Undefined, Undefined),
      ResponseInit(HeadersInit("Headers", << << "x-custom", Str("a") >>, HandlerCookie,
                                             << "x-custom", Str("b") >> >>),
                   Undefined, Undefined),
      ResponseInit(HeadersInit("tuples", << << "x-custom", Str("a") >>, HandlerCookie >>),
                   404, "Not Found") }

JsonContentType == << "content-type", Str("application/json") >>
HtmlContentType == << "content-type", Str("text/html") >>
HtmlText == [kind |-> "html"]

\* Content-Type and body of the non-redirect responses
Payloads ==
    { << JsonContentType, Body(JsonStringify(o)) >> : o \in HandlerObjects }
    \cup { << JsonContentType, Body(HtmlText) >>,
           << JsonContentType, NoBody >>,
           << HtmlContentType, Body(HtmlText) >>,
           << HtmlContentType, Body(JsonStringify(Obj([customData |-> Str("test-value")]))) >> }

OtherStatuses == { 200, 299, 400 }
RedirectStatuses == { 300, 302, 399 }

CustomHeaders == { << << "x-custom", Str("a") >> >>,
                   << << "x-custom", Str("a") >>, HandlerCookie >> }

HandlerResponses ==
    { Response(st, "", << p[1] >> \o h, p[2]) :
        st \in OtherStatuses, p \in Payloads, h \in CustomHeaders }
    \cup { Response(st, "", h \o << << "location", Concat(<< "/", "dashboard" >>) >> >>, NoBody) :
             st \in RedirectStatuses, h \in CustomHeaders }

HandlerError == [type |-> "Error", message |-> "handler failed"]

\* Everything a handler may do when it is called
HandlerOutcomes ==
    { Returned(Plain(v)) : v \in HandlerObjects \cup { Null } }
    \cup { Returned(Data(o, i)) : o \in HandlerObjects, i \in HandlerInits }
    \cup { Returned(r) : r \in HandlerResponses }
    \cup { Thrown(r) : r \in HandlerResponses }
    \cup { Thrown(HandlerError) }

\* ---------------------------------------------------------------- session storage manager

\* Number of configure / getSessionStorage calls made on one manager
MaxCalls == 3

DefaultCookieName == Str("wos-session")

\* A SessionStorageManager just constructed
NewManager == [storage |-> Null, configPromise |-> Null, cookieName |-> DefaultCookieName]

CustomStorage == [kind |-> "storage", made |-> "by the application", name |-> Str("_cookie")]

\* The arguments of configure
StorageConfigs ==
    { [storage |-> Undefined, cookieName |-> Undefined],
      [storage |-> Undefined, cookieName |-> Str("session1")],
      [storage |-> Undefined, cookieName |-> Str("session2")],
      [storage |-> CustomStorage, cookieName |-> Str("_cookie")] }

\* ---------------------------------------------------------------- configuration

\* Number of configure calls made on the configuration
MaxConfigures == 2

ConfigKeys == { "clientId", "apiHttps", "cookieName", "cookieMaxAge", "cookiePassword" }

\* `WORKOS_${str.replace(/([a-z])([A-Z])/g, '$1_$2').toUpperCase()}`
getEnvironmentVariableName(key) ==
    CASE key = "clientId"       -> "WORKOS_CLIENT_ID"
      [] key = "apiHttps"       -> "WORKOS_API_HTTPS"
      [] key = "cookieName"     -> "WORKOS_COOKIE_NAME"
      [] key = "cookieMaxAge"   -> "WORKOS_COOKIE_MAX_AGE"
      [] key = "cookiePassword" -> "WORKOS_COOKIE_PASSWORD"

\* An object without properties
NoValues == [n \in {} |-> Undefined]

\* What an environment may hold
Envs ==
    { NoValues,
      "WORKOS_CLIENT_ID" :> Str("client_env"),
      ("WORKOS_API_HTTPS" :> Str("false")) @@ ("WORKOS_COOKIE_MAX_AGE" :> Str("3600")) }

FunctionSource(env) == [kind |-> "function", env |-> env]
ObjectSource(env) == [kind |-> "object", env |-> env]
ConfigValues(values) == [kind |-> "values", values |-> values]

ValueSources == { FunctionSource(e) : e \in Envs } \cup { ObjectSource(e) : e \in Envs \ { NoValues } }

ShortPassword == Str("short")
LongPassword == Str("a-cookie-password-of-32-characters")

\* Partial<AuthKitConfig> objects given to configure
ExplicitConfigs ==
    { NoValues,
      "clientId" :> Str("client_1234567890"),
      "cookiePassword" :> ShortPassword,
      ("cookiePassword" :> LongPassword) @@ ("cookieName" :> Str("my-cookie")) }

\* The arguments of a configure call
ConfigureArgs ==
    { << s, Undefined >> : s \in { FunctionSource(e) : e \in Envs } }
    \cup { << ConfigValues(v), Undefined >> : v \in ExplicitConfigs }
    \cup { << ConfigValues(v), s >> : v \in ExplicitConfigs, s \in ValueSources }

\* The module's state when it is loaded: defaultSource reads process.env
NewSettings(processEnv) ==
    [processEnv   |-> processEnv,
     configValues |-> NoValues,
     valueSource  |-> FunctionSource(processEnv),
     isConfigured |-> FALSE]

\* configure(configOrSource, source): the new module state and what the call did
Configure(settings, configOrSource, source) ==
    LET merged == configOrSource.values @@ settings.configValues
        next ==
          IF configOrSource.kind = "function"
            THEN [settings EXCEPT !.valueSource = configOrSource]
          ELSE IF source = Undefined
            THEN [settings EXCEPT !.configValues = merged]
          ELSE [settings EXCEPT !.configValues = merged, !.valueSource = source]
    IN  [settings |-> [next EXCEPT !.isConfigured = TRUE], did |-> Returned(Undefined)]

\* valueSource(envKey) or valueSource?.[envKey]
SourceValue(valueSource, envKey) ==
    IF envKey \in DOMAIN valueSource.env THEN valueSource.env[envKey] ELSE Undefined

Num(n) == [kind |-> "number", value |-> n]

\* parseInt(value, 10), undefined where it is NaN
ParseInt(value) ==
    IF value.value = "3600" THEN Num(3600) ELSE Undefined

\* getConfig(key)
getConfig(settings, key) ==
    IF key \in DOMAIN settings.configValues THEN settings.configValues[key]
    ELSE LET value == SourceValue(settings.valueSource, getEnvironmentVariableName(key))
         IN  IF key = "apiHttps" /\ value.kind = "string" THEN Bool(value.value = "true")
             ELSE IF key \in { "apiPort", "cookieMaxAge" } /\ value.kind = "string"
               THEN ParseInt(value)
             ELSE value

\* ---------------------------------------------------------------- state

VARIABLES
    cookieJar,   \* the client's session cookie: Undefined or a sealed session
    nReq,        \* requests sent so far
    pc,          \* where authkitLoader is in the current request
    req,         \* the request and the options of the current authkitLoader call
    session,     \* what updateSession returned
    sessState,   \* the state the session engine resolved for the request
    auth,        \* the Auth Context built for the request
    loaderCall,  \* the call of the user handler: the auth it got, what it did
    caught,      \* the SessionRefreshError caught by authkitLoader
    errorCallback, \* what onSessionRefreshError did when it was called
    issued,      \* the tokens the provider issued in this request
    outcome,     \* what authkitLoader returned or threw
    trace,       \* the calls made during the request, in order
    manager,     \* the fields of the session storage manager
    tasks,       \* the configure / getSessionStorage calls made on it
    settings,    \* the module state of the configuration
    configCalls, \* the configure calls made: their arguments, what they did
    configRead,  \* the last getConfig call since: its key, what it returned
    inflight     \* the authkitLoader calls in flight together, each with its own state

\* The variables of a request, and those of the storage manager
requestVars == << cookieJar, nReq, pc, req, session, sessState, auth, loaderCall,
                  caught, errorCallback, issued, outcome, trace >>

configVars == << settings, configCalls, configRead >>

concurrentVars == << inflight >>

storageVars == << manager, tasks, configVars, concurrentVars >>

vars == << requestVars, storageVars >>

Ev(name, arg) == [ev |-> name, arg |-> arg]

NoRequest == [kind |-> "none"]

Init ==
    /\ cookieJar \in InitialCookies
    /\ nReq = 0
    /\ pc = "idle"
    /\ req = NoRequest
    /\ session = Undefined
    /\ sessState = "Start"
    /\ auth = Undefined
    /\ loaderCall = Undefined
    /\ caught = Undefined
    /\ errorCallback = Undefined
    /\ issued = Undefined
    /\ outcome = Undefined
    /\ trace = << >>
    /\ manager = NewManager
    /\ tasks = << >>
    /\ settings = NewSettings(NoValues)
    /\ configCalls = << >>
    /\ configRead = Undefined
    /\ inflight = << >>

\* authkitLoader entered: the arguments are read and the storage configured
StartRequest ==
    /\ pc = "idle"
    /\ nReq < MaxRequests
    /\ \E url \in RequestUrls, ensureSignedIn \in BOOLEAN, hasLoader \in BOOLEAN,
          onSuccess \in BOOLEAN, onError \in BOOLEAN :
          req' = [kind |-> "request", url |-> url, cookie |-> cookieJar,
                  ensureSignedIn |-> ensureSignedIn, hasLoader |-> hasLoader,
                  onSessionRefreshSuccess |-> onSuccess,
                  onSessionRefreshError |-> onError]
    /\ nReq' = nReq + 1
    /\ pc' = "updateSession"
    /\ UNCHANGED << cookieJar, session, sessState, auth, loaderCall, caught,
                    errorCallback, issued, outcome, trace >>
    /\ UNCHANGED storageVars

\* updateSession: no session in the cookie
UpdateSessionNoSession ==
    /\ pc = "updateSession"
    /\ getSessionFromCookie(req.cookie) = Null
    /\ session' = Null
    /\ pc' = "resolved"
    /\ UNCHANGED << errorCallback, cookieJar, nReq, req, sessState, auth, loaderCall, caught,
                    issued, outcome, trace >>
    /\ UNCHANGED storageVars

\* Mutant: a valid session is sealed and committed again
UpdateSessionValid_Recommits ==
    /\ pc = "updateSession"
    /\ getSessionFromCookie(req.cookie) # Null
    /\ LET stored == getSessionFromCookie(req.cookie)
           cookie == CommitSession(SessionSet(GetSession(req.cookie), encryptSession(stored)))
       IN  /\ trace' = trace \o << Ev("verifyAccessToken", stored.accessToken),
                                    Ev("encryptSession", stored),
                                    Ev("commitSession", cookie) >>
           /\ session' = [stored EXCEPT !.headers =
                             HeadersInit("object", << << "set-cookie", cookie >> >>)]
    /\ sessState' = "Valid"
    /\ pc' = "resolved"
    /\ UNCHANGED << errorCallback, cookieJar, nReq, req, auth, loaderCall, caught, issued, outcome >>
    /\ UNCHANGED storageVars

\* updateSession: the access token verifies
UpdateSessionValid ==
    /\ pc = "updateSession"
    /\ getSessionFromCookie(req.cookie) # Null
    /\ LET stored == getSessionFromCookie(req.cookie)
       IN  /\ trace' = Append(trace, Ev("verifyAccessToken", stored.accessToken))
           /\ session' = stored
    /\ sessState' = "Valid"
    /\ pc' = "resolved"
    /\ UNCHANGED << errorCallback, cookieJar, nReq, req, auth, loaderCall, caught, issued, outcome >>
    /\ UNCHANGED storageVars

\* The arguments of the refresh exchange in updateSession
RefreshArgs(stored) ==
    [refreshToken |-> stored.refreshToken, organizationId |-> Undefined]

SessionRefreshError(cause) == [type |-> "SessionRefreshError", cause |-> cause]

\* Mutant: the refreshed session keeps the stored access token
RefreshedSession_KeepsStoredToken(stored, tokens, cookieHeader) ==
    LET newSession == SessionRecord(stored.accessToken, tokens.refreshToken,
                                    stored.user, stored.impersonator, EmptyHeadersObject)
        updatedSession == SessionSet(GetSession(cookieHeader), encryptSession(newSession))
    IN  [newSession EXCEPT !.headers =
            HeadersInit("object", << << "set-cookie", CommitSession(updatedSession) >> >>)]

\* Mutant: the impersonator of the stored session is not carried over
RefreshedSession_ForgetsImpersonator(stored, tokens, cookieHeader) ==
    LET newSession == SessionRecord(tokens.accessToken, tokens.refreshToken,
                                    stored.user, Undefined, EmptyHeadersObject)
        updatedSession == SessionSet(GetSession(cookieHeader), encryptSession(newSession))
    IN  [newSession EXCEPT !.headers =
            HeadersInit("object", << << "set-cookie", CommitSession(updatedSession) >> >>)]

\* The record updateSession builds after a successful refresh exchange
RefreshedSession(stored, tokens, cookieHeader) ==
    LET newSession == SessionRecord(tokens.accessToken, tokens.refreshToken,
                                    stored.user, stored.impersonator, EmptyHeadersObject)
        updatedSession == SessionSet(GetSession(cookieHeader), encryptSession(newSession))
    IN  [newSession EXCEPT !.headers =
            HeadersInit("object", << << "set-cookie", CommitSession(updatedSession) >> >>)]

\* updateSession: verification fails, the refresh exchange succeeds
UpdateSessionRefreshed ==
    /\ pc = "updateSession"
    /\ getSessionFromCookie(req.cookie) # Null
    /\ LET stored == getSessionFromCookie(req.cookie)
       IN  \E at \in AccessTokens \ { stored.accessToken },
              rt \in RefreshTokens \ { stored.refreshToken } :
              LET tokens == [accessToken |-> at, refreshToken |-> rt]
                  newSession == RefreshedSession(stored, tokens, req.cookie)
              IN  /\ issued' = tokens
                  /\ session' = newSession
                  /\ trace' = trace \o
                       << Ev("verifyAccessToken", stored.accessToken),
                          Ev("authenticateWithRefreshToken", RefreshArgs(stored)),
                          Ev("encryptSession", [newSession EXCEPT !.headers = EmptyHeadersObject]),
                          Ev("commitSession", ObjGet(newSession.headers.entries, "set-cookie")) >>
    /\ sessState' = "Refreshed"
    /\ pc' = "resolved"
    /\ UNCHANGED << errorCallback, cookieJar, nReq, req, auth, loaderCall, caught, outcome >>
    /\ UNCHANGED storageVars

\* updateSession: verification fails, the refresh exchange fails
UpdateSessionRefreshFailed ==
    /\ pc = "updateSession"
    /\ getSessionFromCookie(req.cookie) # Null
    /\ LET stored == getSessionFromCookie(req.cookie)
       IN  \E e \in ProviderErrors :
              /\ caught' = SessionRefreshError(e)
              /\ trace' = trace \o
                   << Ev("verifyAccessToken", stored.accessToken),
                      Ev("authenticateWithRefreshToken", RefreshArgs(stored)),
                      Ev("refreshRejected", e) >>
    /\ sessState' = "RefreshFailed"
    /\ pc' = "catch"
    /\ UNCHANGED << errorCallback, cookieJar, nReq, req, session, auth, loaderCall, issued, outcome >>
    /\ UNCHANGED storageVars

\* ---------------------------------------------------------------- authkitLoader

\* Mutant: the Unauthorized shape lacks accessToken
UnauthorizedData_NoAccessToken ==
    Obj([user |-> Null, impersonator |-> Null,
         organizationId |-> Null, permissions |-> Null, entitlements |-> Null,
         role |-> Null, sessionId |-> Null, sealedSession |-> Null])

UnauthorizedData ==
    Obj([user |-> Null, accessToken |-> Null, impersonator |-> Null,
         organizationId |-> Null, permissions |-> Null, entitlements |-> Null,
         role |-> Null, sessionId |-> Null, sealedSession |-> Null])

\* Mutant: a token without organization leaves the field undefined
AuthorizedData_NoDefaults(sess, cookieSession) ==
    LET claims == getClaimsFromAccessToken(sess.accessToken)
    IN  Obj([user           |-> sess.user,
             sessionId      |-> claims.sessionId,
             accessToken    |-> sess.accessToken,
             organizationId |-> claims.organizationId,
             role           |-> claims.role,
             permissions    |-> claims.permissions,
             entitlements   |-> claims.entitlements,
             impersonator   |-> sess.impersonator,
             sealedSession  |-> cookieSession.jwt])

AuthorizedData(sess, cookieSession) ==
    LET claims == getClaimsFromAccessToken(sess.accessToken)
    IN  Obj([user           |-> sess.user,
             sessionId      |-> claims.sessionId,
             accessToken    |-> sess.accessToken,
             organizationId |-> Default(claims.organizationId, Null),
             role           |-> Default(claims.role, Null),
             permissions    |-> Default(claims.permissions, Str("[]")),
             entitlements   |-> Default(claims.entitlements, Str("[]")),
             impersonator   |-> Default(sess.impersonator, Null),
             sealedSession  |-> cookieSession.jwt])

\* The fields of AuthorizedData / UnauthorizedData
AuthKeys == { "user", "sessionId", "accessToken", "organizationId", "role",
              "permissions", "entitlements", "impersonator", "sealedSession" }

\* The argument authkitLoader gives to onSessionRefreshSuccess
RefreshSuccessOptions(sess) ==
    [accessToken    |-> sess.accessToken,
     user           |-> sess.user,
     impersonator   |-> Default(sess.impersonator, Null),
     organizationId |-> Default(getClaimsFromAccessToken(sess.accessToken).organizationId, Null)]

\* onSessionRefreshSuccess && 'headers' in session
CallsRefreshSuccess(options, sess) ==
    options.onSessionRefreshSuccess /\ sess.headers # Undefined

\* Mutant: the redirect leaves the cookie in place
RedirectDestroying_KeepsCookie(url, cookieSession) == Redirect(url, NoHeaders)

\* throw redirect(url, { headers: { 'Set-Cookie': await destroySession(cookieSession) } })
RedirectDestroying(url, cookieSession) ==
    Redirect(url, << << "set-cookie", DestroySession(cookieSession) >> >>)

\* No session and ensureSignedIn: redirect to the authorization URL
EnsureSignedInRedirect ==
    /\ pc = "resolved"
    /\ session = Null
    /\ req.ensureSignedIn
    /\ LET returnPathname == getReturnPathname(req.url)
           cookieSession == GetSession(req.cookie)
       IN  /\ outcome' = Thrown(RedirectDestroying(
                                  getAuthorizationUrl(returnPathname, Undefined),
                                  cookieSession))
           /\ trace' = Append(trace, Ev("destroySession", cookieSession))
    /\ sessState' = "AbsentAndRequired"
    /\ pc' = "done"
    /\ UNCHANGED << errorCallback, cookieJar, nReq, req, session, auth, loaderCall, caught, issued >>
    /\ UNCHANGED storageVars

\* Mutant: the handler path is taken whatever ensureSignedIn says
Anonymous_IgnoresEnsureSignedIn ==
    /\ pc = "resolved"
    /\ session = Null
    /\ auth' = UnauthorizedData
    /\ sessState' = "Anonymous"
    /\ pc' = "handle"
    /\ UNCHANGED << errorCallback, cookieJar, nReq, req, session, loaderCall, caught, issued,
                    outcome, trace >>
    /\ UNCHANGED storageVars

\* No session, sign-in not required: the Unauthorized context
Anonymous ==
    /\ pc = "resolved"
    /\ session = Null
    /\ ~req.ensureSignedIn
    /\ auth' = UnauthorizedData
    /\ sessState' = "Anonymous"
    /\ pc' = "handle"
    /\ UNCHANGED << errorCallback, cookieJar, nReq, req, session, loaderCall, caught, issued,
                    outcome, trace >>
    /\ UNCHANGED storageVars

\* Session valid or refreshed: the Authorized context; the success callback,
\* when it is called, returns
BuildAuthContext ==
    /\ pc = "resolved"
    /\ session # Null
    /\ trace' = IF CallsRefreshSuccess(req, session)
                  THEN Append(trace, Ev("onSessionRefreshSuccess", RefreshSuccessOptions(session)))
                  ELSE trace
    /\ auth' = AuthorizedData(session, GetSession(req.cookie))
    /\ pc' = "handle"
    /\ UNCHANGED << errorCallback, cookieJar, nReq, req, session, sessState, loaderCall, caught,
                    issued, outcome >>
    /\ UNCHANGED storageVars

CallbackError == [type |-> "Error", message |-> "callback failed"]

\* The success callback throws: the error leaves authkitLoader
RefreshSuccessCallbackThrows ==
    /\ pc = "resolved"
    /\ session # Null
    /\ CallsRefreshSuccess(req, session)
    /\ trace' = Append(trace, Ev("onSessionRefreshSuccess", RefreshSuccessOptions(session)))
    /\ outcome' = Thrown(CallbackError)
    /\ pc' = "done"
    /\ UNCHANGED << errorCallback, cookieJar, nReq, req, session, sessState, auth, loaderCall,
                    caught, issued >>
    /\ UNCHANGED storageVars

\* The session argument of handleAuthLoader: none on the anonymous path
SessionArg == IF session = Null THEN Undefined ELSE session

\* handleAuthLoader without a handler
BareLoader ==
    /\ pc = "handle"
    /\ ~req.hasLoader
    /\ outcome' = handleAuthLoader(Undefined, auth, SessionArg)
    /\ pc' = "done"
    /\ UNCHANGED << errorCallback, cookieJar, nReq, req, session, sessState, auth, loaderCall,
                    caught, issued, trace >>
    /\ UNCHANGED storageVars

\* handleAuthLoader with a handler: the handler is called, its result merged;
\* what the handler or the merge throws leaves authkitLoader unchanged, since
\* it is no SessionRefreshError
CallLoader ==
    /\ pc = "handle"
    /\ req.hasLoader
    /\ \E did \in HandlerOutcomes :
          /\ loaderCall' = [auth |-> auth, did |-> did]
          /\ outcome' = handleAuthLoader(did, auth, SessionArg)
    /\ trace' = Append(trace, Ev("loader", auth))
    /\ pc' = "done"
    /\ UNCHANGED << errorCallback, cookieJar, nReq, req, session, sessState, auth, caught, issued >>
    /\ UNCHANGED storageVars

\* What an onSessionRefreshError callback may do
CallbackResponses ==
    { Redirect(Concat(<< "/", "error" >>), NoHeaders),
      Response(200, "", << HtmlContentType >>, Body(HtmlText)) }

RefreshErrorCallbackOutcomes ==
    { Returned(r) : r \in CallbackResponses \cup { Undefined } }
    \cup { Thrown(r) : r \in CallbackResponses \cup { CallbackError } }

\* The argument authkitLoader gives to onSessionRefreshError
RefreshErrorOptions(error, cookieSession) ==
    [error |-> error.cause, sessionData |-> cookieSession]

\* Mutant: whatever the callback returns or throws is taken for its answer
HonoursCallback_Always(did) == did # Undefined

\* The catch block for a SessionRefreshError, given what the callback did
\* (Undefined: no callback supplied)
HonoursCallback(did) == did # Undefined /\ isResponse(did.value)

\* Mutant: a Response the callback returns is ignored, only a thrown one counts
RefreshErrorOutcome_IgnoresReturn(did, cookieSession) ==
    IF HonoursCallback(did) /\ did.how = "throw"
      THEN Thrown(did.value)
      ELSE Thrown(RedirectDestroying(Concat(<< "/" >>), cookieSession))

RefreshErrorOutcome(did, cookieSession) ==
    IF HonoursCallback(did)
      THEN (IF did.how = "return" THEN Returned(did.value) ELSE Thrown(did.value))
      ELSE Thrown(RedirectDestroying(Concat(<< "/" >>), cookieSession))

\* catch (error) for a SessionRefreshError, no callback supplied
CatchRefreshErrorDefault ==
    /\ pc = "catch"
    /\ ~req.onSessionRefreshError
    /\ LET cookieSession == GetSession(req.cookie)
       IN  /\ outcome' = RefreshErrorOutcome(Undefined, cookieSession)
           /\ trace' = Append(trace, Ev("destroySession", cookieSession))
    /\ pc' = "done"
    /\ UNCHANGED << errorCallback, cookieJar, nReq, req, session, sessState, auth, loaderCall,
                    caught, issued >>
    /\ UNCHANGED storageVars

\* catch (error) for a SessionRefreshError, the callback is called
CatchRefreshErrorCallback ==
    /\ pc = "catch"
    /\ req.onSessionRefreshError
    /\ LET cookieSession == GetSession(req.cookie)
       IN  \E did \in RefreshErrorCallbackOutcomes :
              LET called == Append(trace, Ev("onSessionRefreshError",
                                             RefreshErrorOptions(caught, cookieSession)))
              IN  /\ outcome' = RefreshErrorOutcome(did, cookieSession)
                  /\ errorCallback' = did
                  /\ trace' = IF HonoursCallback(did)
                                THEN called
                                ELSE Append(called, Ev("destroySession", cookieSession))
    /\ pc' = "done"
    /\ UNCHANGED << cookieJar, nReq, req, session, sessState, auth, loaderCall,
                    caught, issued >>
    /\ UNCHANGED storageVars

\* ---------------------------------------------------------------- the client

\* The headers of what the loader gave back, as the framework sends them
OutcomeHeaders(o) ==
    IF isResponse(o.value) THEN o.value.headers
    ELSE IF isDataWithResponseInit(o.value)
      THEN (IF o.value.init = Undefined \/ o.value.init.headers = Undefined
              THEN NoHeaders
              ELSE NewHeaders(o.value.init.headers))
    ELSE NoHeaders

\* The browser applies the Set-Cookie headers in order
RECURSIVE ApplySetCookies(_, _)
ApplySetCookies(jar, cookies) ==
    IF cookies = << >> THEN jar
    ELSE ApplySetCookies(
           IF cookies[1].kind = "commit" THEN cookies[1].jwt
           ELSE IF cookies[1].kind = "destroy" THEN Undefined
           ELSE jar,
           Tail(cookies))

\* The response reaches the client; the request is over
Deliver ==
    /\ pc = "done"
    /\ cookieJar' = ApplySetCookies(cookieJar, HeaderValues(OutcomeHeaders(outcome), "set-cookie"))
    /\ pc' = "idle"
    /\ req' = NoRequest
    /\ session' = Undefined
    /\ sessState' = "Start"
    /\ auth' = Undefined
    /\ loaderCall' = Undefined
    /\ caught' = Undefined
    /\ errorCallback' = Undefined
    /\ issued' = Undefined
    /\ outcome' = Undefined
    /\ trace' = << >>
    /\ UNCHANGED nReq
    /\ UNCHANGED storageVars

Next ==
    \/ StartRequest
    \/ UpdateSessionNoSession
    \/ UpdateSessionValid
    \/ UpdateSessionRefreshed
    \/ UpdateSessionRefreshFailed
    \/ EnsureSignedInRedirect
    \/ Anonymous
    \/ BuildAuthContext
    \/ RefreshSuccessCallbackThrows
    \/ BareLoader
    \/ CallLoader
    \/ CatchRefreshErrorDefault
    \/ CatchRefreshErrorCallback
    \/ Deliver

Spec == Init /\ [][Next]_vars

TypeOK ==
    /\ pc \in { "idle", "updateSession", "resolved", "handle", "catch", "done" }
    /\ nReq \in 0..MaxRequests
    /\ sessState \in { "Start", "Anonymous", "AbsentAndRequired", "Valid", "Refreshed",
                       "RefreshFailed" }

\* ---------------------------------------------------------------- seals that do not open

\* A jwt value that sealData with this password did not produce: corrupt,
\* forged, or sealed with another password.
Tampered == [kind |-> "tampered"]
BadSeal == [kind |-> "sealed", ttl |-> 0, payload |-> Tampered]
IsBadSeal(cookieHeader) == cookieHeader # Undefined /\ cookieHeader.payload = Tampered

\* {} : a session record with no member
EmptySession == SessionRecord(Undefined, Undefined, Undefined, Undefined, Undefined)

UnsealError == [type |-> "Error", message |-> "unseal failed"]

\* unsealData(session.get('jwt'), { password }): a seal made by sealData opens;
\* for any other value the library either resolves to {} (bad hmac, wrong
\* number of components, unknown password) or rejects (any other failure)
UnsealOutcomes(sealed) ==
    IF sealed.payload = Tampered
      THEN { Returned(EmptySession), Thrown(UnsealError) }
      ELSE { Returned(UnsealData(sealed)) }

\* getSessionFromCookie for any cookie: what it resolves to or rejects with
SessionFromCookieOutcomes(cookieHeader) ==
    LET s == GetSession(cookieHeader)
    IN  IF SessionHas(s) THEN UnsealOutcomes(s.jwt) ELSE { Returned(Null) }

\* updateSession: unsealData rejects; the error is no SessionRefreshError and
\* leaves authkitLoader as it is
UpdateSessionUnsealThrows ==
    /\ pc = "updateSession"
    /\ Thrown(UnsealError) \in SessionFromCookieOutcomes(req.cookie)
    /\ outcome' = Thrown(UnsealError)
    /\ pc' = "done"
    /\ UNCHANGED << errorCallback, cookieJar, nReq, req, session, sessState, auth, loaderCall,
                    caught, issued, trace >>
    /\ UNCHANGED storageVars

\* updateSession: unsealData resolves to {}, which is a session for
\* `if (!session)`; verification of the missing access token fails and the
\* refresh exchange, given no refresh token, is rejected
UpdateSessionUnsealsEmpty ==
    /\ pc = "updateSession"
    /\ Returned(EmptySession) \in SessionFromCookieOutcomes(req.cookie)
    /\ \E e \in ProviderErrors :
          /\ caught' = SessionRefreshError(e)
          /\ trace' = trace \o
               << Ev("verifyAccessToken", EmptySession.accessToken),
                  Ev("authenticateWithRefreshToken", RefreshArgs(EmptySession)),
                  Ev("refreshRejected", e) >>
    /\ sessState' = "RefreshFailed"
    /\ pc' = "catch"
    /\ UNCHANGED << errorCallback, cookieJar, nReq, req, session, auth, loaderCall, issued, outcome >>
    /\ UNCHANGED storageVars

\* ---------------------------------------------------------------- signOut

\* An access token whose payload has no sid
TokenWithoutSid == Jwt(3, Undefined, Undefined, Undefined, Undefined, Undefined)

ReturnTos == { Undefined, Str("/login") }

TypeError == [type |-> "TypeError", message |-> "Cannot destructure property of null"]
JWTInvalid == [type |-> "JWTInvalid", message |-> "JWT must be a string"]

\* getWorkOS().userManagement.getLogoutUrl({ sessionId, returnTo })
getLogoutUrl(sessionId, returnTo) ==
    [kind |-> "logoutUrl", provider |-> "authkit", sessionId |-> sessionId,
     returnTo |-> returnTo]

\* decodeJwt throws for anything that is not a JWT string
DecodeJwtThrows(accessToken) == accessToken.kind # "jwt"

\* Mutant: without a session id the redirect goes to "/" whatever returnTo is
terminateSession_IgnoresReturnTo(cookieHeader, returnTo, unsealed) ==
    LET encryptedSession == GetSession(cookieHeader)
        destroyed == Ev("destroySession", encryptedSession)
        headers == << << "set-cookie", DestroySession(encryptedSession) >> >>
    IN  IF unsealed.how = "throw"
          THEN [did |-> Thrown(unsealed.value), calls |-> << >>]
        ELSE IF unsealed.value = Null
          THEN [did |-> Thrown(TypeError), calls |-> << >>]
        ELSE IF DecodeJwtThrows(unsealed.value.accessToken)
          THEN [did |-> Thrown(JWTInvalid), calls |-> << >>]
        ELSE LET sessionId == getClaimsFromAccessToken(unsealed.value.accessToken).sessionId
             IN  IF Truthy(sessionId)
                   THEN [did |-> Returned(Redirect(getLogoutUrl(sessionId, returnTo), headers)),
                         calls |-> << destroyed,
                                      Ev("getLogoutUrl", [sessionId |-> sessionId,
                                                          returnTo |-> returnTo]) >>]
                   ELSE [did |-> Returned(Redirect(Concat(<< "/" >>), headers)),
                         calls |-> << destroyed >>]

\* terminateSession(request, { returnTo }), given what getSessionFromCookie
\* did: the result (returned or thrown) and the calls made
terminateSession(cookieHeader, returnTo, unsealed) ==
    LET encryptedSession == GetSession(cookieHeader)
        destroyed == Ev("destroySession", encryptedSession)
        headers == << << "set-cookie", DestroySession(encryptedSession) >> >>
    IN  IF unsealed.how = "throw"
          THEN [did |-> Thrown(unsealed.value), calls |-> << >>]
        ELSE IF unsealed.value = Null
          THEN [did |-> Thrown(TypeError), calls |-> << >>]
        ELSE IF DecodeJwtThrows(unsealed.value.accessToken)
          THEN [did |-> Thrown(JWTInvalid), calls |-> << >>]
        ELSE LET sessionId == getClaimsFromAccessToken(unsealed.value.accessToken).sessionId
             IN  IF Truthy(sessionId)
                   THEN [did |-> Returned(Redirect(getLogoutUrl(sessionId, returnTo), headers)),
                         calls |-> << destroyed,
                                      Ev("getLogoutUrl", [sessionId |-> sessionId,
                                                          returnTo |-> returnTo]) >>]
                   ELSE [did |-> Returned(Redirect(IF returnTo = Undefined \/ returnTo = Null
                                                     THEN Concat(<< "/" >>) ELSE returnTo,
                                                   headers)),
                         calls |-> << destroyed >>]

\* signOut(request, options): one call, from the request to the response
SignOut ==
    /\ pc = "idle"
    /\ nReq < MaxRequests
    /\ \E returnTo \in ReturnTos, unsealed \in SessionFromCookieOutcomes(cookieJar) :
          LET r == terminateSession(cookieJar, returnTo, unsealed)
          IN  /\ req' = [kind |-> "signOut", cookie |-> cookieJar, returnTo |-> returnTo]
              /\ outcome' = r.did
              /\ trace' = r.calls
    /\ nReq' = nReq + 1
    /\ pc' = "done"
    /\ UNCHANGED << session, sessState, auth, loaderCall, caught, errorCallback, issued,
                    cookieJar >>
    /\ UNCHANGED storageVars

\* ---------------------------------------------------------------- a cookie that does not unseal

InitTampered ==
    /\ cookieJar = BadSeal
    /\ nReq = 0
    /\ pc = "idle"
    /\ req = NoRequest
    /\ session = Undefined
    /\ sessState = "Start"
    /\ auth = Undefined
    /\ loaderCall = Undefined
    /\ caught = Undefined
    /\ errorCallback = Undefined
    /\ issued = Undefined
    /\ outcome = Undefined
    /\ trace = << >>
    /\ manager = NewManager
    /\ tasks = << >>
    /\ settings = NewSettings(NoValues)
    /\ configCalls = << >>
    /\ configRead = Undefined
    /\ inflight = << >>

\* authkitLoader and signOut called by a client whose cookie does not unseal
\* (a first request may clear the cookie, the next one then has none)
NextTampered ==
    \/ StartRequest
    \/ UpdateSessionUnsealThrows
    \/ UpdateSessionUnsealsEmpty
    \/ UpdateSessionNoSession
    \/ EnsureSignedInRedirect
    \/ Anonymous
    \/ BareLoader
    \/ CallLoader
    \/ CatchRefreshErrorDefault
    \/ CatchRefreshErrorCallback
    \/ SignOut
    \/ Deliver

SpecTampered == InitTampered /\ [][NextTampered]_vars

\* ---------------------------------------------------------------- refreshSession

OrganizationIds == { Str("org-2") }

\* What the provider rejects the refresh exchange with: an exception carrying
\* the error code of the response, or a value that is no Error
OauthException(code) ==
    [type |-> "Error", name |-> "OauthException", error |-> Str(code), message |-> code]

ExchangeErrors ==
    { OauthException(c) : c \in { "sso_required", "mfa_enrollment", "invalid_grant" } }
    \cup { [type |-> "NonError", error |-> Undefined, message |-> "network down"] }

\* new Error(`Failed to refresh session: ${...}`, { cause: error })
RefreshFailure(error) ==
    [type |-> "Error", name |-> "Error",
     message |-> Concat(<< "Failed to refresh session: ", error.message >>),
     cause |-> error]

\* The tokens the provider may answer a refresh exchange with
ExchangeTokens(stored) ==
    { [accessToken |-> at, refreshToken |-> rt] :
        at \in AccessTokens \ { stored.accessToken },
        rt \in RefreshTokens \ { stored.refreshToken } }

\* What the refresh exchange does for a stored session
ExchangeOutcomes(stored) ==
    { Returned(t) : t \in ExchangeTokens(stored) } \cup { Thrown(e) : e \in ExchangeErrors }

\* Mutant: the claims are those of the stored access token
RefreshedAuth_StoredClaims(stored, tokens, cookieSession, headers) ==
    LET claims == getClaimsFromAccessToken(stored.accessToken)
    IN  Obj([user           |-> stored.user,
             sessionId      |-> claims.sessionId,
             accessToken    |-> tokens.accessToken,
             organizationId |-> claims.organizationId,
             role           |-> claims.role,
             permissions    |-> claims.permissions,
             entitlements   |-> claims.entitlements,
             impersonator   |-> IF Truthy(stored.impersonator) THEN stored.impersonator ELSE Null,
             sealedSession  |-> cookieSession.jwt,
             headers        |-> headers])

\* The value refreshSession resolves to
RefreshedAuth(stored, tokens, cookieSession, headers) ==
    LET claims == getClaimsFromAccessToken(tokens.accessToken)
    IN  Obj([user           |-> stored.user,
             sessionId      |-> claims.sessionId,
             accessToken    |-> tokens.accessToken,
             organizationId |-> claims.organizationId,
             role           |-> claims.role,
             permissions    |-> claims.permissions,
             entitlements   |-> claims.entitlements,
             impersonator   |-> IF Truthy(stored.impersonator) THEN stored.impersonator ELSE Null,
             sealedSession  |-> cookieSession.jwt,
             headers        |-> headers])

\* refreshSession(request, { organizationId }), given what getSessionFromCookie
\* and the refresh exchange do: the result (returned or thrown), the calls
\* made and the tokens issued
refreshSession(cookieHeader, organizationId, unsealed, exchange) ==
    IF unsealed.how = "throw"
      THEN [did |-> Thrown(unsealed.value), calls |-> << >>, issued |-> Undefined]
    ELSE IF unsealed.value = Null
      THEN [did |-> Thrown(Redirect(getAuthorizationUrl(Undefined, Undefined), NoHeaders)),
            calls |-> << >>, issued |-> Undefined]
    ELSE LET stored == unsealed.value
             called == Ev("authenticateWithRefreshToken",
                          [refreshToken |-> stored.refreshToken,
                           organizationId |-> organizationId])
         IN  IF exchange.how = "throw"
               THEN [did |-> Thrown(RefreshFailure(exchange.value)),
                     calls |-> << called, Ev("refreshRejected", exchange.value) >>,
                     issued |-> Undefined]
               ELSE LET tokens == exchange.value
                        newSession == SessionRecord(tokens.accessToken, tokens.refreshToken,
                                                    stored.user, stored.impersonator,
                                                    EmptyHeadersObject)
                        cookieSession == SessionSet(GetSession(cookieHeader),
                                                    encryptSession(newSession))
                        cookie == CommitSession(cookieSession)
                        headers == HeadersInit("object", << << "set-cookie", cookie >> >>)
                    IN  [did |-> Returned(RefreshedAuth(stored, tokens, cookieSession, headers)),
                         calls |-> << called,
                                      Ev("encryptSession", newSession),
                                      Ev("commitSession", cookie) >>,
                         issued |-> tokens]

\* The exchange outcomes refreshSession can meet for a cookie
ExchangesFor(unsealed) ==
    IF unsealed.how = "return" /\ unsealed.value # Null
      THEN ExchangeOutcomes(unsealed.value)
      ELSE { Undefined }

\* refreshSession called by the application
RefreshSession ==
    /\ pc = "idle"
    /\ nReq < MaxRequests
    /\ \E organizationId \in OrganizationIds \cup { Undefined },
          unsealed \in SessionFromCookieOutcomes(cookieJar) :
          \E exchange \in ExchangesFor(unsealed) :
             LET r == refreshSession(cookieJar, organizationId, unsealed, exchange)
             IN  /\ req' = [kind |-> "refreshSession", cookie |-> cookieJar,
                            organizationId |-> organizationId]
                 /\ outcome' = r.did
                 /\ trace' = r.calls
                 /\ issued' = r.issued
    /\ nReq' = nReq + 1
    /\ pc' = "done"
    /\ UNCHANGED << session, sessState, auth, loaderCall, caught, errorCallback, cookieJar >>
    /\ UNCHANGED storageVars

\* ---------------------------------------------------------------- switchToOrganization

\* Mutant: the cookie of the refreshed session is not read
SwitchSetCookie_Empty(refreshedAuth) == Str("")

\* auth.headers?.['Set-Cookie'] ?? ''
SwitchSetCookie(refreshedAuth) ==
    LET h == refreshedAuth.fields.headers
        c == IF h = Undefined \/ h = Null THEN Undefined ELSE ObjGet(h.entries, "set-cookie")
    IN  IF c = Undefined \/ c = Null THEN Str("") ELSE c

\* Mutant: the code is looked for on the error itself, not on its cause
ErrorCause_Unwrapped(error) == error

\* error instanceof Error ? error.cause : null
ErrorCause(error) ==
    IF error.type \in { "Error", "TypeError", "JWTInvalid" }
      THEN (IF "cause" \in DOMAIN error THEN error.cause ELSE Undefined)
      ELSE Null

\* errorCause?.error
CauseCode(errorCause) ==
    IF "error" \in DOMAIN errorCause THEN errorCause.error ELSE Undefined

StepUpCodes == { Str("sso_required"), Str("mfa_enrollment") }

\* switchToOrganization(request, organizationId, { returnTo }), given what
\* refreshSession did
switchToOrganization(organizationId, returnTo, refreshed) ==
    IF refreshed.how = "return"
      THEN LET refreshedAuth == refreshed.value
               headers == << << "set-cookie", SwitchSetCookie(refreshedAuth) >> >>
           IN  IF Truthy(returnTo)
                 THEN Returned(Redirect(returnTo, headers))
                 ELSE Returned(Data(Obj([success |-> Bool(TRUE), auth |-> refreshedAuth]),
                                    ResponseInit(HeadersInit("object", headers),
                                                 Undefined, Undefined)))
      ELSE LET error == refreshed.value
           IN  IF isResponse(error) /\ error.status = 302
                 THEN Thrown(error)
               ELSE IF CauseCode(ErrorCause(error)) \in StepUpCodes
                 THEN Returned(Redirect(getAuthorizationUrl(Undefined, organizationId), NoHeaders))
               ELSE Returned(Data(Obj([success |-> Bool(FALSE), error |-> error.message]),
                                  ResponseInit(Undefined, 400, Undefined)))

\* switchToOrganization called by a route
SwitchToOrganization ==
    /\ pc = "idle"
    /\ nReq < MaxRequests
    /\ \E organizationId \in OrganizationIds, returnTo \in ReturnTos,
          unsealed \in SessionFromCookieOutcomes(cookieJar) :
          \E exchange \in ExchangesFor(unsealed) :
             LET r == refreshSession(cookieJar, organizationId, unsealed, exchange)
             IN  /\ req' = [kind |-> "switchToOrganization", cookie |-> cookieJar,
                            organizationId |-> organizationId, returnTo |-> returnTo]
                 /\ outcome' = switchToOrganization(organizationId, returnTo, r.did)
                 /\ caught' = IF r.did.how = "throw" THEN r.did.value ELSE Undefined
                 /\ trace' = r.calls
                 /\ issued' = r.issued
    /\ nReq' = nReq + 1
    /\ pc' = "done"
    /\ UNCHANGED << session, sessState, auth, loaderCall, errorCallback, cookieJar >>
    /\ UNCHANGED storageVars

\* ---------------------------------------------------------------- the callback route

\* The `state` query parameter of a callback request: absent, the text
\* "null", what getAuthorizationUrl encoded, or anything else a client sends
NotBase64 == [kind |-> "text", text |-> "%%%"]
Base64Of(text) == [kind |-> "base64", of |-> text]
NotJson == Base64Of([kind |-> "text", text |-> "not json"])
JsonNull == Base64Of([kind |-> "json", of |-> Null])
JsonOther == Base64Of([kind |-> "json", of |-> [other |-> "x"]])

CallbackStates ==
    { Null, Str("null"), NotBase64, NotJson, JsonNull, JsonOther }
    \cup { EncodeState(getReturnPathname(u)) : u \in RequestUrls }
    \cup { EncodeState(Concat(<< OtherOrigin, "/", "x" >>)),
           EncodeState(Concat(<< ProtocolRelative, "/", "x", "?", "a", "=", "b" >>)) }

SyntaxError == [type |-> "Error", name |-> "SyntaxError", message |-> "bad state"]

\* state && state !== 'null' ? JSON.parse(atob(state)).returnPathname : null
\* : the value, or the exception atob, JSON.parse or the member access throws
ReturnPathnameOfState(state) ==
    IF state = Null \/ state = Str("null") THEN Returned(Null)
    ELSE IF state.kind # "base64" THEN Thrown(SyntaxError)
    ELSE IF state.of.kind # "json" THEN Thrown(SyntaxError)
    ELSE IF state.of.of = Null THEN Thrown(TypeError)
    ELSE IF "returnPathname" \in DOMAIN state.of.of THEN Returned(DecodeState(state))
    ELSE Returned(Undefined)

\* Index of the first "?" of a path, 0 when there is none
RECURSIVE QueryAt(_, _)
QueryAt(parts, i) ==
    IF i > Len(parts) THEN 0
    ELSE IF parts[i] = "?" THEN i ELSE QueryAt(parts, i + 1)

\* new URL(request.url) of a callback request
CallbackRequestUrl(code, state) ==
    [kind |-> "url", origin |-> AppOrigin, pathname |-> << "/", "callback" >>,
     searchParams |-> (IF code = Null THEN << >> ELSE << << "code", "code-1" >> >>)
                      \o (IF state = Null THEN << >> ELSE << << "state", "state-1" >> >>)]

\* URLSearchParams.delete(name)
DeleteParam(params, name) == SelectSeq(params, LAMBDA p : p[1] # name)

\* The pairs of a query string
RECURSIVE ParseSearch(_)
ParseSearch(tokens) ==
    IF Len(tokens) < 3 THEN << >>
    ELSE << << tokens[1], tokens[3] >> >> \o ParseSearch(SubSeq(tokens, 5, Len(tokens)))

\* new URL(returnPathname, 'https://example.com'): an absolute or
\* protocol-relative URL keeps its own host, anything else is resolved
\* against the base
ParsedUrl(parts) ==
    LET hasHost == parts # << >> /\ parts[1] \in { OtherOrigin, ProtocolRelative }
        rest == IF hasHost THEN Tail(parts) ELSE parts
        q == QueryAt(rest, 1)
        path == IF q > 0 THEN SubSeq(rest, 1, q - 1) ELSE rest
    IN  [kind |-> "url",
         origin |-> IF hasHost THEN OtherOrigin ELSE "https://example.com",
         pathname |-> IF path = << >> THEN << "/" >> ELSE path,
         searchParams |-> IF q > 0 THEN ParseSearch(SubSeq(rest, q + 1, Len(rest))) ELSE << >>]

\* url.pathname = value: the value is parsed as a path of the same URL
SetPathname(parts) ==
    IF parts # << >> /\ parts[1] \in { "/", ProtocolRelative } THEN parts
    ELSE << "/" >> \o parts

\* Mutant: code and state stay in the query
CallbackTarget_KeepsParams(url, returnPathname) ==
    LET parts == returnPathname.parts
    IN  IF QueryAt(parts, 1) > 0
          THEN [url EXCEPT !.pathname = ParsedUrl(parts).pathname,
                           !.searchParams = @ \o ParsedUrl(parts).searchParams]
          ELSE [url EXCEPT !.pathname = SetPathname(parts)]

\* Mutant: the redirect goes to returnPathname resolved as a URL
CallbackTarget_FollowsUrl(url, returnPathname) ==
    LET newUrl == ParsedUrl(returnPathname.parts)
    IN  [newUrl EXCEPT !.origin = IF @ = OtherOrigin THEN @ ELSE url.origin]

\* The URL the callback redirects to: the request's URL without code and
\* state, its pathname (and the query of returnPathname, if it has one) taken
\* from returnPathname
CallbackTarget(url, returnPathname) ==
    LET parts == returnPathname.parts
        cleaned == [url EXCEPT !.searchParams = DeleteParam(DeleteParam(@, "code"), "state")]
    IN  IF QueryAt(parts, 1) > 0
          THEN [cleaned EXCEPT !.pathname = ParsedUrl(parts).pathname,
                               !.searchParams = @ \o ParsedUrl(parts).searchParams]
          ELSE [cleaned EXCEPT !.pathname = SetPathname(parts)]

\* The 500 payload
errorResponse ==
    Data(Obj([error |-> Obj([message |-> Str("Something went wrong"),
                             description |-> Str("Couldn't sign in.")])]),
         ResponseInit(Undefined, 500, Undefined))

\* What authenticateWithCode resolves to
CodeExchanges ==
    { [accessToken |-> at, refreshToken |-> Str("rt-1"), user |-> u, impersonator |-> imp] :
        at \in AccessTokens, u \in Users, imp \in Impersonators }

CodeExchangeOutcomes ==
    { Returned(x) : x \in CodeExchanges } \cup { Thrown(OauthException("invalid_grant")) }

\* What the onSuccess option does: not given, returns, throws
OnSuccessOutcomes == { Undefined, Returned(Undefined), Thrown(CallbackError) }

ReturnPathnameOptions ==
    { Undefined, Concat(<< "/", "home" >>), Concat(<< "/", "home", "?", "foo", "=", "bar" >>),
      Concat(<< ProtocolRelative, "/", "x" >>) }

\* The loader authLoader(options) returns, called with a request
authLoader(returnPathnameOption, code, state, exchange, onSuccess) ==
    LET fromState == ReturnPathnameOfState(state)
    IN  IF fromState.how = "throw"
          THEN [did |-> Thrown(fromState.value), calls |-> << >>, issued |-> Undefined]
        ELSE IF code = Null
          THEN [did |-> Returned(Undefined), calls |-> << >>, issued |-> Undefined]
        ELSE LET called == Ev("authenticateWithCode", code)
             IN  IF exchange.how = "throw"
                   THEN [did |-> Returned(errorResponse), calls |-> << called >>,
                         issued |-> Undefined]
                   ELSE LET got == exchange.value
                            returnPathname ==
                                IF fromState.value = Null \/ fromState.value = Undefined
                                  THEN Default(returnPathnameOption, Concat(<< "/" >>))
                                  ELSE fromState.value
                            encryptedSession ==
                                encryptSession(SessionRecord(got.accessToken, got.refreshToken,
                                                             got.user, got.impersonator,
                                                             EmptyHeadersObject))
                            cookie == CommitSession(SessionSet(GetSession(Undefined),
                                                               encryptedSession))
                            did == << called, Ev("encryptSession", encryptedSession),
                                      Ev("commitSession", cookie) >>
                        IN  IF onSuccess # Undefined /\ onSuccess.how = "throw"
                              THEN [did |-> Returned(errorResponse),
                                    calls |-> Append(did, Ev("onSuccess", got)),
                                    issued |-> got]
                              ELSE [did |-> Returned(Redirect(
                                        CallbackTarget(CallbackRequestUrl(code, state),
                                                       returnPathname),
                                        << << "set-cookie", cookie >> >>)),
                                    calls |-> IF onSuccess = Undefined THEN did
                                              ELSE Append(did, Ev("onSuccess", got)),
                                    issued |-> got]

\* The callback route called with a request
CallbackLoader ==
    /\ pc = "idle"
    /\ nReq < MaxRequests
    /\ \E option \in ReturnPathnameOptions, code \in { Null, Str("code-1") },
          state \in CallbackStates, exchange \in CodeExchangeOutcomes,
          onSuccess \in OnSuccessOutcomes :
          LET r == authLoader(option, code, state, exchange, onSuccess)
          IN  /\ req' = [kind |-> "callback", cookie |-> cookieJar, code |-> code,
                         state |-> state, returnPathname |-> option]
              /\ outcome' = r.did
              /\ trace' = r.calls
              /\ issued' = r.issued
    /\ nReq' = nReq + 1
    /\ pc' = "done"
    /\ UNCHANGED << session, sessState, auth, loaderCall, caught, errorCallback, cookieJar >>
    /\ UNCHANGED storageVars

\* ---------------------------------------------------------------- withAuth

\* Access tokens whose payload has an exp claim (seconds)
TokensWithExp ==
    { Jwt(4, Str("sid-4"), Str("org-1"), Str("admin"), Str("[read]"), Str("[premium]"))
        @@ [exp |-> e] : e \in { 1, 2 } }

\* Date.now() (milliseconds) when withAuth runs
Nows == { 999, 1000, 1999, 2000, 2001 }

\* Mutant: the token is never taken for expired
Expired_Never(now, accessToken) == FALSE

\* const { exp = 0 } = claims; Date.now() >= exp * 1000
Expired(now, accessToken) ==
    LET exp == IF "exp" \in DOMAIN accessToken THEN accessToken.exp ELSE 0
    IN  now >= exp * 1000

NoUserInfo == Obj([user |-> Null])

UserInfo(stored) ==
    LET claims == getClaimsFromAccessToken(stored.accessToken)
    IN  Obj([user           |-> stored.user,
             sessionId      |-> claims.sessionId,
             organizationId |-> claims.organizationId,
             role           |-> claims.role,
             permissions    |-> claims.permissions,
             entitlements   |-> claims.entitlements,
             impersonator   |-> stored.impersonator,
             accessToken    |-> stored.accessToken])

\* withAuth(args), given what getSessionFromCookie did and the time
withAuth(now, unsealed) ==
    IF unsealed.how = "throw" THEN Thrown(unsealed.value)
    ELSE IF unsealed.value = Null \/ ~Truthy(unsealed.value.accessToken)
      THEN Returned(NoUserInfo)
    ELSE IF Expired(now, unsealed.value.accessToken)
      THEN Returned(NoUserInfo)
    ELSE Returned(UserInfo(unsealed.value))

\* withAuth called by a route loader
WithAuth ==
    /\ pc = "idle"
    /\ nReq < MaxRequests
    /\ \E now \in Nows, unsealed \in SessionFromCookieOutcomes(cookieJar) :
          /\ req' = [kind |-> "withAuth", cookie |-> cookieJar, now |-> now]
          /\ outcome' = withAuth(now, unsealed)
    /\ trace' = << >>
    /\ nReq' = nReq + 1
    /\ pc' = "done"
    /\ UNCHANGED << session, sessState, auth, loaderCall, caught, errorCallback, issued,
                    cookieJar >>
    /\ UNCHANGED storageVars

\* ---------------------------------------------------------------- the routes of an application

\* The cookies a client may hold when it calls a route: none, or a session
\* the callback route sealed (its access token with or without a sid)
RouteCookies ==
    { Undefined }
    \cup { encryptSession(SessionRecord(at, Str("rt-1"), u, imp, EmptyHeadersObject)) :
             at \in AccessTokens \cup { TokenWithoutSid } \cup TokensWithExp,
             u \in Users, imp \in Impersonators }

InitRoutes ==
    /\ cookieJar \in RouteCookies
    /\ nReq = 0
    /\ pc = "idle"
    /\ req = NoRequest
    /\ session = Undefined
    /\ sessState = "Start"
    /\ auth = Undefined
    /\ loaderCall = Undefined
    /\ caught = Undefined
    /\ errorCallback = Undefined
    /\ issued = Undefined
    /\ outcome = Undefined
    /\ trace = << >>
    /\ manager = NewManager
    /\ tasks = << >>
    /\ settings = NewSettings(NoValues)
    /\ configCalls = << >>
    /\ configRead = Undefined
    /\ inflight = << >>

\* A client calling the routes one after the other, each response's cookies
\* applied before the next call
NextRoutes ==
    \/ SignOut
    \/ RefreshSession
    \/ SwitchToOrganization
    \/ CallbackLoader
    \/ WithAuth
    \/ Deliver

SpecRoutes == InitRoutes /\ [][NextRoutes]_vars

\* ---------------------------------------------------------------- configuring the session storage

\* Mutant: every configure call creates the storage again
AlreadyConfigured_Never(m) == FALSE

\* this.configPromise is set
AlreadyConfigured(m) == m.configPromise # Null

\* getRequiredConfig('redirectUri') where the configuration has no redirectUri
MissingRedirectUri ==
    [type |-> "Error", message |-> "Missing required configuration value for redirectUri"]

\* What getDefaultCookieOptions() does: returns the options, or throws where
\* redirectUri or cookiePassword is missing from the configuration
DefaultCookieOptions == Returned([path |-> "/", httpOnly |-> TRUE, sameSite |-> "lax"])
CookieOptionsOutcomes == { DefaultCookieOptions, Thrown(MissingRedirectUri) }

\* createSessionStorage(config): the manager with its cookie name set and,
\* unless getDefaultCookieOptions throws, the storage to keep; what the call did
createSessionStorage(m, config, cookieOptions) ==
    LET named == IF Truthy(config.cookieName)
                   THEN [m EXCEPT !.cookieName = config.cookieName] ELSE m
    IN  IF Truthy(config.storage)
          THEN [manager |-> [named EXCEPT !.storage = config.storage],
                did |-> Returned(Undefined)]
        ELSE IF cookieOptions.how = "throw"
          THEN [manager |-> named, did |-> cookieOptions]
        ELSE [manager |-> [named EXCEPT !.storage =
                              [kind |-> "storage", made |-> "createCookieSessionStorage",
                               name |-> named.cookieName]],
              did |-> Returned(Undefined)]

\* new Promise<void>((resolve) => { ...; resolve() }): rejected where the
\* executor throws
ResolvedPromise == [kind |-> "promise", state |-> "resolved"]
RejectedPromise(reason) == [kind |-> "promise", state |-> "rejected", reason |-> reason]

\* The part of configure that runs before its first await: the promise is
\* created (its executor runs at once) unless there is one already
configure(m, config, cookieOptions) ==
    IF AlreadyConfigured(m) THEN m
    ELSE LET made == createSessionStorage(m, config, cookieOptions)
         IN  [made.manager EXCEPT !.configPromise =
                IF made.did.how = "throw" THEN RejectedPromise(made.did.value)
                ELSE ResolvedPromise]

StorageError == [type |-> "Error", message |-> "SessionStorage was never configured."]

\* Mutant: the fields are returned without the check
ReadSessionStorage_NoCheck(m) ==
    Returned([storage |-> m.storage, cookieName |-> m.cookieName])

\* The part of getSessionStorage after `await this.configPromise`
ReadSessionStorage(m) ==
    IF ~Truthy(m.storage) \/ ~Truthy(m.cookieName)
      THEN Thrown(StorageError)
      ELSE Returned([storage |-> m.storage, cookieName |-> m.cookieName])

\* Mutant: a rejected promise is awaited as a resolved one
AwaitConfigPromise_IgnoresRejection(m) == ReadSessionStorage(m)

\* this.configPromise && (await this.configPromise), then the rest of
\* getSessionStorage
AwaitConfigPromise(m) ==
    IF m.configPromise # Null /\ m.configPromise.state = "rejected"
      THEN Thrown(m.configPromise.reason)
      ELSE ReadSessionStorage(m)

Task(op, config, at, result) == [op |-> op, config |-> config, at |-> at, result |-> result]

\* configure(config) is called: it runs up to the await in getSessionStorage
CallConfigure ==
    /\ Len(tasks) < MaxCalls
    /\ \E config \in StorageConfigs :
          /\ manager' = configure(manager, config, DefaultCookieOptions)
          /\ tasks' = Append(tasks, Task("configure", config, "await", Undefined))
    /\ UNCHANGED configVars
    /\ UNCHANGED concurrentVars
    /\ UNCHANGED requestVars

\* configure(config) is called where the configuration has no redirectUri
CallConfigureMissing ==
    /\ Len(tasks) < MaxCalls
    /\ \E config \in StorageConfigs :
          /\ manager' = configure(manager, config, Thrown(MissingRedirectUri))
          /\ tasks' = Append(tasks, Task("configure", config, "await", Undefined))
    /\ UNCHANGED configVars
    /\ UNCHANGED concurrentVars
    /\ UNCHANGED requestVars

\* getSessionStorage() is called: with no promise to await it reads the
\* fields at once, otherwise it waits
CallGetSessionStorage ==
    /\ Len(tasks) < MaxCalls
    /\ tasks' = Append(tasks,
                       IF manager.configPromise = Null
                         THEN Task("getSessionStorage", Undefined, "done",
                                   AwaitConfigPromise(manager))
                         ELSE Task("getSessionStorage", Undefined, "await", Undefined))
    /\ UNCHANGED manager
    /\ UNCHANGED configVars
    /\ UNCHANGED concurrentVars
    /\ UNCHANGED requestVars

\* A call waiting on the promise resumes and reads the fields
Resume ==
    /\ \E i \in 1..Len(tasks) :
          /\ tasks[i].at = "await"
          /\ tasks' = [tasks EXCEPT ![i] = Task(tasks[i].op, tasks[i].config, "done",
                                                AwaitConfigPromise(manager))]
    /\ UNCHANGED manager
    /\ UNCHANGED configVars
    /\ UNCHANGED concurrentVars
    /\ UNCHANGED requestVars

InitStorage ==
    /\ cookieJar = Undefined
    /\ nReq = 0
    /\ pc = "idle"
    /\ req = NoRequest
    /\ session = Undefined
    /\ sessState = "Start"
    /\ auth = Undefined
    /\ loaderCall = Undefined
    /\ caught = Undefined
    /\ errorCallback = Undefined
    /\ issued = Undefined
    /\ outcome = Undefined
    /\ trace = << >>
    /\ manager = NewManager
    /\ tasks = << >>
    /\ settings = NewSettings(NoValues)
    /\ configCalls = << >>
    /\ configRead = Undefined
    /\ inflight = << >>

NextStorage ==
    \/ CallConfigure
    \/ CallGetSessionStorage
    \/ Resume

SpecStorage == InitStorage /\ [][NextStorage]_vars

\* The same calls, in an application whose redirectUri is missing for some
\* of the configure calls
NextStorageMissing ==
    \/ CallConfigure
    \/ CallConfigureMissing
    \/ CallGetSessionStorage
    \/ Resume

SpecStorageMissing == InitStorage /\ [][NextStorageMissing]_vars

\* ---------------------------------------------------------------- an application without an API key

MissingApiKey ==
    [type |-> "Error", message |-> "Missing required configuration value for apiKey"]

WorkOS == [kind |-> "WorkOS"]

\* getWorkOS(): the client is made at first use, from getRequiredConfig('apiKey')
getWorkOS(apiKey) ==
    IF apiKey = Undefined THEN Thrown(MissingApiKey) ELSE Returned(WorkOS)

\* verifyAccessToken(accessToken): the key set is made from the client before
\* the try block, only jwtVerify runs inside it
verifyAccessToken(workos, verifies) ==
    IF workos.how = "throw" THEN Thrown(workos.value)
    ELSE Returned(Bool(verifies))

\* updateSession: a session is stored, verifyAccessToken throws
UpdateSessionKeySetThrows ==
    /\ pc = "updateSession"
    /\ getSessionFromCookie(req.cookie) # Null
    /\ \E verifies \in BOOLEAN :
          outcome' = verifyAccessToken(getWorkOS(Undefined), verifies)
    /\ pc' = "done"
    /\ UNCHANGED << errorCallback, cookieJar, nReq, req, session, sessState, auth, loaderCall,
                    caught, issued, trace >>
    /\ UNCHANGED storageVars

\* authkitLoader: no session and ensureSignedIn; getAuthorizationUrl throws
\* before the redirect is made and before destroySession is called
EnsureSignedInNoApiKey ==
    /\ pc = "resolved"
    /\ session = Null
    /\ req.ensureSignedIn
    /\ outcome' = Thrown(getWorkOS(Undefined).value)
    /\ sessState' = "AbsentAndRequired"
    /\ pc' = "done"
    /\ UNCHANGED << errorCallback, cookieJar, nReq, req, session, auth, loaderCall, caught,
                    issued, trace >>
    /\ UNCHANGED storageVars

InitNoApiKey == Init

NextNoApiKey ==
    \/ StartRequest
    \/ UpdateSessionNoSession
    \/ UpdateSessionKeySetThrows
    \/ EnsureSignedInNoApiKey
    \/ Anonymous
    \/ BareLoader
    \/ CallLoader
    \/ Deliver

SpecNoApiKey == InitNoApiKey /\ [][NextNoApiKey]_vars

\* ---------------------------------------------------------------- configuring the application

\* configure(...) called by the application
DoConfigure ==
    /\ Len(configCalls) < MaxConfigures
    /\ \E args \in ConfigureArgs :
          LET call == Configure(settings, args[1], args[2])
          IN  /\ settings' = call.settings
              /\ configCalls' = Append(configCalls,
                                       [configOrSource |-> args[1], source |-> args[2],
                                        did |-> call.did])
    /\ configRead' = Undefined
    /\ UNCHANGED << manager, tasks >>
    /\ UNCHANGED concurrentVars
    /\ UNCHANGED requestVars

\* getConfig(key) called
ReadConfig ==
    /\ \E key \in ConfigKeys :
          configRead' = [key |-> key, value |-> getConfig(settings, key)]
    /\ UNCHANGED << settings, configCalls, manager, tasks >>
    /\ UNCHANGED concurrentVars
    /\ UNCHANGED requestVars

InitConfig ==
    /\ cookieJar = Undefined
    /\ nReq = 0
    /\ pc = "idle"
    /\ req = NoRequest
    /\ session = Undefined
    /\ sessState = "Start"
    /\ auth = Undefined
    /\ loaderCall = Undefined
    /\ caught = Undefined
    /\ errorCallback = Undefined
    /\ issued = Undefined
    /\ outcome = Undefined
    /\ trace = << >>
    /\ manager = NewManager
    /\ tasks = << >>
    /\ settings \in { NewSettings(e) : e \in Envs }
    /\ configCalls = << >>
    /\ configRead = Undefined
    /\ inflight = << >>

NextConfig ==
    \/ DoConfigure
    \/ ReadConfig

SpecConfig == InitConfig /\ [][NextConfig]_vars

\* ---------------------------------------------------------------- the callback route in a process

\* The storage options given to authLoader(options)
AuthLoaderStorageOptions ==
    { [storage |-> Undefined, cookieName |-> Undefined],
      [storage |-> CustomStorage, cookieName |-> Str("_cookie")] }

\* The loader of authLoader(options) called with a valid code, in a process
\* whose session storage manager is in whatever state the calls before left
\* it: the loader first awaits getSessionStorage(), the options' storage and
\* cookie are not read
CallbackInProcess ==
    /\ pc = "idle"
    /\ nReq < MaxRequests
    /\ \E options \in AuthLoaderStorageOptions, exchange \in CodeExchangeOutcomes :
          LET got == AwaitConfigPromise(manager)
              r == authLoader(Undefined, Str("code-1"), Null, exchange, Undefined)
          IN  /\ req' = [kind |-> "callback", cookie |-> cookieJar, code |-> Str("code-1"),
                         state |-> Null, returnPathname |-> Undefined,
                         options |-> options, exchange |-> exchange,
                         manager |-> manager]
              /\ outcome' = IF got.how = "throw" THEN got ELSE r.did
              /\ trace' = IF got.how = "throw" THEN << >> ELSE r.calls
              /\ issued' = IF got.how = "throw" THEN Undefined ELSE r.issued
    /\ nReq' = nReq + 1
    /\ pc' = "done"
    /\ UNCHANGED << session, sessState, auth, loaderCall, caught, errorCallback, cookieJar >>
    /\ UNCHANGED << manager, tasks >>
    /\ UNCHANGED configVars
    /\ UNCHANGED concurrentVars

NextProcess ==
    \/ CallConfigure
    \/ CallGetSessionStorage
    \/ Resume
    \/ CallbackInProcess

SpecProcess == InitStorage /\ [][NextProcess]_vars

\* ---------------------------------------------------------------- the two refreshes

\* authkitLoader and refreshSession called by the same client
NextRefresh ==
    \/ Next
    \/ RefreshSession

SpecRefresh == Init /\ [][NextRefresh]_vars

\* ---------------------------------------------------------------- requests in flight together

\* Number of authkitLoader calls in flight at the same time
MaxConcurrent == 3

\* What the provider may answer to a refresh exchange for the stored session
RefreshAnswers(stored) ==
    { Returned([accessToken |-> at, refreshToken |-> rt]) :
        at \in AccessTokens \ { stored.accessToken },
        rt \in RefreshTokens \ { stored.refreshToken } }
    \cup { Thrown(e) : e \in ProviderErrors }

\* Mutant: a request acts on the answer an earlier request in flight got
AnswerActedOn_Shared(q, i, answer) ==
    IF \E j \in 1..Len(q) : j # i /\ q[j].answer # Undefined
      THEN q[CHOOSE j \in 1..Len(q) : j # i /\ q[j].answer # Undefined].answer
      ELSE answer

\* The answer request i acts on: what its own
\* `await getWorkOS().userManagement.authenticateWithRefreshToken(...)` gave;
\* updateSession keeps nothing from one call to the next
AnswerActedOn(q, i, answer) == answer

\* What authkitLoader(args), without handler and callbacks, gives for a
\* session that was refreshed with the tokens
RefreshedOutcome(cookieHeader, tokens) ==
    LET stored == getSessionFromCookie(cookieHeader)
        newSession == RefreshedSession(stored, tokens, cookieHeader)
    IN  handleAuthLoader(Undefined, AuthorizedData(newSession, GetSession(cookieHeader)),
                         newSession)

\* authkitLoader is called with the client's cookie
Arrive ==
    /\ Len(inflight) < MaxConcurrent
    /\ inflight' = Append(inflight,
                          [pc |-> "updateSession", cookie |-> cookieJar, calls |-> << >>,
                           answer |-> Undefined, sessState |-> "Start",
                           outcome |-> Undefined])
    /\ UNCHANGED << manager, tasks >>
    /\ UNCHANGED configVars
    /\ UNCHANGED requestVars

\* updateSession of a request up to the answer of verifyAccessToken; a
\* request without session, or with a valid one, completes
VerifyStep ==
    /\ \E i \in 1..Len(inflight) :
          /\ inflight[i].pc = "updateSession"
          /\ LET r == inflight[i]
                 stored == getSessionFromCookie(r.cookie)
                 verified == Append(r.calls, Ev("verifyAccessToken", stored.accessToken))
             IN  IF stored = Null
                   THEN inflight' = [inflight EXCEPT ![i] =
                          [r EXCEPT !.pc = "done", !.sessState = "Anonymous",
                                    !.outcome = handleAuthLoader(Undefined, UnauthorizedData,
                                                                 Undefined)]]
                   ELSE \E valid \in BOOLEAN :
                          inflight' = [inflight EXCEPT ![i] =
                            IF valid
                              THEN [r EXCEPT !.pc = "done", !.sessState = "Valid",
                                             !.calls = verified,
                                             !.outcome = handleAuthLoader(Undefined,
                                                AuthorizedData(stored, GetSession(r.cookie)),
                                                stored)]
                              ELSE [r EXCEPT !.pc = "refresh", !.calls = verified]]
    /\ UNCHANGED << manager, tasks >>
    /\ UNCHANGED configVars
    /\ UNCHANGED requestVars

\* The rest of a request whose token did not verify: the refresh exchange,
\* then the refreshed session or the redirect that destroys the cookie
ExchangeStep ==
    /\ \E i \in 1..Len(inflight) :
          /\ inflight[i].pc = "refresh"
          /\ LET r == inflight[i]
                 stored == getSessionFromCookie(r.cookie)
                 called == Append(r.calls,
                                  Ev("authenticateWithRefreshToken", RefreshArgs(stored)))
             IN  \E answer \in RefreshAnswers(stored) :
                    LET acted == AnswerActedOn(inflight, i, answer)
                    IN  inflight' = [inflight EXCEPT ![i] =
                          IF acted.how = "return"
                            THEN [r EXCEPT !.pc = "done", !.sessState = "Refreshed",
                                           !.calls = called, !.answer = answer,
                                           !.outcome = RefreshedOutcome(r.cookie, acted.value)]
                            ELSE [r EXCEPT !.pc = "done", !.sessState = "RefreshFailed",
                                           !.calls = called, !.answer = answer,
                                           !.outcome = RefreshErrorOutcome(Undefined,
                                                          GetSession(r.cookie))]]
    /\ UNCHANGED << manager, tasks >>
    /\ UNCHANGED configVars
    /\ UNCHANGED requestVars

NextConcurrent ==
    \/ Arrive
    \/ VerifyStep
    \/ ExchangeStep

SpecConcurrent == Init /\ [][NextConcurrent]_vars

\* ---------------------------------------------------------------- signing in

\* The callback route called by the client that follows the redirect of
\* authkitLoader to the authorization URL: the provider sends the client back
\* with a code and with the state of that URL
CallbackAfterSignIn ==
    /\ pc = "done"
    /\ req.kind = "request"
    /\ sessState = "AbsentAndRequired"
    /\ nReq < MaxRequests
    /\ \E option \in ReturnPathnameOptions, exchange \in CodeExchangeOutcomes :
          LET authorizationUrl == HeaderValues(outcome.value.headers, "location")[1]
              state == IF authorizationUrl.state = Undefined THEN Null
                       ELSE authorizationUrl.state
              r == authLoader(option, Str("code-1"), state, exchange, Undefined)
          IN  /\ req' = [kind |-> "callback", cookie |-> cookieJar, code |-> Str("code-1"),
                         state |-> state, returnPathname |-> option, from |-> req.url]
              /\ outcome' = r.did
              /\ trace' = r.calls
              /\ issued' = r.issued
    /\ nReq' = nReq + 1
    /\ UNCHANGED << pc, session, sessState, auth, loaderCall, caught, errorCallback, cookieJar >>
    /\ UNCHANGED storageVars

\* A client without cookie asks for a page that requires a user and signs in
NextSignIn ==
    \/ StartRequest
    \/ UpdateSessionNoSession
    \/ EnsureSignedInRedirect
    \/ Anonymous
    \/ BareLoader
    \/ CallLoader
    \/ CallbackAfterSignIn

SpecSignIn == InitStorage /\ [][NextSignIn]_vars

\* ---------------------------------------------------------------- properties

Calls(name) == SelectSeq(trace, LAMBDA e : e.ev = name)

\* The session the request's cookie holds
Stored == getSessionFromCookie(req.cookie)

SetCookies(o) == HeaderValues(OutcomeHeaders(o), "set-cookie")

InSeq(x, q) == \E i \in 1..Len(q) : q[i] = x

\* A Set-Cookie written by the session storage (commit or destroy)
FromStorage(c) == c.kind = "commit" \/ c.kind = "destroy"

\* C1: a request whose stored access token fails verification and whose
\* refresh exchange succeeds calls authenticateWithRefreshToken exactly once,
\* with the stored refresh token; the Auth Context carries the newly issued
\* access token and the claims decoded from it, not the stored ones; and the
\* value the loader returns carries the Set-Cookie of the committed, newly
\* sealed session.
C1_RefreshedOnceWithNewToken ==
    sessState = "Refreshed" =>
      /\ Len(Calls("authenticateWithRefreshToken")) = 1
      /\ Calls("authenticateWithRefreshToken")[1].arg.refreshToken = Stored.refreshToken
      /\ Len(Calls("commitSession")) = 1
      /\ auth # Undefined =>
           /\ auth.fields.accessToken = issued.accessToken
           /\ auth.fields.accessToken # Stored.accessToken
           /\ auth.fields.sessionId = issued.accessToken.sid
           /\ auth.fields.organizationId = Default(issued.accessToken.org_id, Null)
           /\ auth.fields.role = Default(issued.accessToken.role, Null)
      /\ (outcome # Undefined /\ outcome.how = "return") =>
           LET cookie == Calls("commitSession")[1].arg
           IN  /\ InSeq(cookie, SetCookies(outcome))
               /\ cookie.kind = "commit"
               /\ UnsealData(cookie.jwt).accessToken = issued.accessToken
               /\ UnsealData(cookie.jwt).refreshToken = issued.refreshToken

C1_Witness ==
    /\ pc = "done"
    /\ sessState = "Refreshed"
    /\ loaderCall # Undefined
    /\ outcome.how = "return"
    /\ Len(SetCookies(outcome)) = 2

\* C2: when the stored access token verifies, the request is read-only: no
\* refresh exchange, no seal, commit or destroy, no Set-Cookie from the auth
\* layer in what the loader returns or throws, and the Auth Context's user,
\* sessionId, organizationId and role are those of the stored session and of
\* the claims of the stored access token.
C2_ValidIsReadOnly ==
    sessState = "Valid" =>
      /\ Calls("authenticateWithRefreshToken") = << >>
      /\ Calls("encryptSession") = << >>
      /\ Calls("commitSession") = << >>
      /\ Calls("destroySession") = << >>
      /\ auth # Undefined =>
           /\ auth.fields.user = Stored.user
           /\ auth.fields.sessionId = Stored.accessToken.sid
           /\ auth.fields.organizationId = Default(Stored.accessToken.org_id, Null)
           /\ auth.fields.role = Default(Stored.accessToken.role, Null)
      /\ outcome # Undefined =>
           \A i \in 1..Len(SetCookies(outcome)) : ~FromStorage(SetCookies(outcome)[i])

C2_Witness ==
    /\ pc = "done"
    /\ sessState = "Valid"
    /\ loaderCall # Undefined
    /\ outcome.how = "return"
    /\ auth.fields.organizationId = Null

DefaultFailureRedirect ==
    Thrown(Response(302, "",
                    << << "set-cookie", [kind |-> "destroy"] >>,
                       << "location", Concat(<< "/" >>) >> >>,
                    NoBody))

\* C3: when verification fails, the refresh exchange fails and no
\* onSessionRefreshError is supplied, the loader throws a redirect to '/'
\* whose Set-Cookie destroys the session cookie; the exchange was attempted
\* once, and the provider's error is the cause of the SessionRefreshError.
C3_RefreshFailedDefault ==
    (sessState = "RefreshFailed" /\ ~req.onSessionRefreshError) =>
      /\ Len(Calls("authenticateWithRefreshToken")) = 1
      /\ caught.type = "SessionRefreshError"
      /\ caught.cause = Calls("refreshRejected")[1].arg
      /\ pc = "done" =>
           /\ outcome = DefaultFailureRedirect
           /\ Len(Calls("destroySession")) = 1

C3_Witness ==
    /\ pc = "done"
    /\ sessState = "RefreshFailed"
    /\ ~req.onSessionRefreshError
    /\ outcome.how = "throw"

\* C4: when the refresh exchange fails and onSessionRefreshError is supplied,
\* it is called once with the provider's error; a Response it returns is what
\* the loader returns, a Response it throws is what the loader throws, and in
\* both cases neither the default redirect nor the destroying header is made.
C4_RefreshErrorCallback ==
    (sessState = "RefreshFailed" /\ req.onSessionRefreshError /\ pc = "done") =>
      /\ Len(Calls("onSessionRefreshError")) = 1
      /\ Calls("onSessionRefreshError")[1].arg.error = Calls("refreshRejected")[1].arg
      /\ Len(Calls("authenticateWithRefreshToken")) = 1
      /\ isResponse(errorCallback.value) =>
           /\ outcome = errorCallback
           /\ outcome # DefaultFailureRedirect
           /\ Calls("destroySession") = << >>

C4_Witness ==
    /\ pc = "done"
    /\ sessState = "RefreshFailed"
    /\ req.onSessionRefreshError
    /\ errorCallback.how = "return"
    /\ isResponse(errorCallback.value)
    /\ outcome.how = "return"

\* Every query parameter of the URL is in the string, as key=value
HasQuery(parts, params) ==
    \A p \in 1..Len(params) :
       \E i \in 1..(Len(parts) - 2) :
          /\ parts[i] = params[p][1]
          /\ parts[i + 1] = "="
          /\ parts[i + 2] = params[p][2]

\* C5: no sealed session in the cookie and ensureSignedIn true: the loader
\* throws a redirect to the authorization URL, whose state decodes to the
\* request's path followed by its query string, and whose Set-Cookie destroys
\* the session cookie; neither verification nor refresh is called.
C5_EnsureSignedInRedirect ==
    (pc = "done" /\ Stored = Null /\ req.ensureSignedIn) =>
      /\ sessState = "AbsentAndRequired"
      /\ outcome.how = "throw"
      /\ isResponse(outcome.value)
      /\ outcome.value.status = 302
      /\ LET location == HeaderValues(outcome.value.headers, "location")
         IN  /\ Len(location) = 1
             /\ location[1].kind = "authorizationUrl"
             /\ location[1].state.kind = "base64"
             /\ LET parts == DecodeState(location[1].state).parts
                    path == req.url.pathname
                IN  /\ Len(parts) >= Len(path)
                    /\ SubSeq(parts, 1, Len(path)) = path
                    /\ HasQuery(parts, req.url.searchParams)
      /\ SetCookies(outcome) = << [kind |-> "destroy"] >>
      /\ Calls("verifyAccessToken") = << >>
      /\ Calls("authenticateWithRefreshToken") = << >>

C5_Witness ==
    /\ pc = "done"
    /\ Stored = Null
    /\ req.ensureSignedIn
    /\ req.url.searchParams # << >>
    /\ outcome.how = "throw"

AllNull == [k \in AuthKeys |-> Null]

\* C6: no sealed session in the cookie and ensureSignedIn false: every Auth
\* Context field of the data the loader returns is null (the data is exactly
\* the Unauthorized shape when there is no handler), the auth layer adds no
\* Set-Cookie (none at all without a handler), and neither verification nor
\* refresh is called.
C6_AnonymousUnauthorized ==
    (pc = "done" /\ Stored = Null /\ ~req.ensureSignedIn) =>
      /\ sessState = "Anonymous"
      /\ auth = Obj(AllNull)
      /\ Calls("verifyAccessToken") = << >>
      /\ Calls("authenticateWithRefreshToken") = << >>
      /\ Calls("commitSession") = << >>
      /\ Calls("destroySession") = << >>
      /\ (outcome.how = "return" /\ isDataWithResponseInit(outcome.value)) =>
           \A k \in AuthKeys :
              /\ k \in Keys(outcome.value.data)
              /\ outcome.value.data.fields[k] = Null
      /\ ~req.hasLoader =>
           /\ outcome = Returned(Data(Obj(AllNull), Undefined))
           /\ SetCookies(outcome) = << >>
      /\ \A i \in 1..Len(SetCookies(outcome)) : ~FromStorage(SetCookies(outcome)[i])

C6_Witness ==
    /\ pc = "done"
    /\ Stored = Null
    /\ ~req.ensureSignedIn
    /\ ~req.hasLoader
    /\ outcome.how = "return"

IsRedirectResponse(x) == isResponse(x) /\ x.status \in 300..399

\* C7: the handler is called at most once per request, as the last call of
\* the request and after the state was resolved, and only in the states
\* Anonymous (ensureSignedIn false), Valid and Refreshed; in the states
\* AbsentAndRequired and RefreshFailed it is never called, and the loader ends
\* with a thrown redirect or with the Response the error callback gave.
C7_HandlerOnlyWhenResolved ==
    /\ Len(Calls("loader")) <= 1
    /\ (pc = "done") => sessState # "Start"
    /\ (loaderCall # Undefined) = (Calls("loader") # << >>)
    /\ Calls("loader") # << >> =>
         /\ sessState \in { "Anonymous", "Valid", "Refreshed" }
         /\ sessState = "Anonymous" => (~req.ensureSignedIn /\ Stored = Null)
         /\ sessState # "Anonymous" => Calls("verifyAccessToken") # << >>
         /\ trace[Len(trace)].ev = "loader"
    /\ sessState \in { "AbsentAndRequired", "RefreshFailed" } =>
         /\ Calls("loader") = << >>
         /\ pc = "done" =>
              \/ outcome.how = "throw" /\ IsRedirectResponse(outcome.value)
              \/ /\ errorCallback # Undefined
                 /\ isResponse(errorCallback.value)
                 /\ outcome = errorCallback

C7_Witness ==
    /\ pc = "done"
    /\ sessState = "Refreshed"
    /\ Len(Calls("loader")) = 1
    /\ Len(trace) > 4

\* The object a handler result brings to the merge
HandlerData(result) ==
    IF isDataWithResponseInit(result) THEN result.data
    ELSE IF isResponse(result) THEN JsonParse(result.body.text)
    ELSE result.value

\* The handler returned something handleAuthLoader merges
IsMerged(did) ==
    /\ did.how = "return"
    /\ \/ ~isResponse(did.value)
       \/ /\ ~IsRedirectResponse(did.value)
          /\ InSeq(JsonContentType, did.value.headers)
          /\ did.value.body # NoBody
          /\ IsJsonText(did.value.body.text)

\* C8: whatever form the merged handler result has (plain object, JSON
\* Response, data with response init), every Auth Context key is in the output
\* data with the Auth Context's value, and every other handler key is kept
\* with the handler's value.
C8_AuthContextWins ==
    (pc = "done" /\ loaderCall # Undefined /\ IsMerged(loaderCall.did)) =>
      /\ outcome.how = "return"
      /\ isDataWithResponseInit(outcome.value)
      /\ LET out == outcome.value.data
             h == HandlerData(loaderCall.did.value)
         IN  /\ \A k \in Keys(auth) :
                   k \in Keys(out) /\ out.fields[k] = auth.fields[k]
             /\ Keys(auth) = AuthKeys
             /\ h.kind = "object" =>
                  \A k \in Keys(h) \ AuthKeys :
                     k \in Keys(out) /\ out.fields[k] = h.fields[k]

C8_Witness ==
    /\ pc = "done"
    /\ loaderCall # Undefined
    /\ IsMerged(loaderCall.did)
    /\ isResponse(loaderCall.did.value)
    /\ sessState = "Valid"
    /\ "user" \in Keys(HandlerData(loaderCall.did.value))
    /\ outcome.value.data.fields["user"] = Stored.user

\* C9: a redirect-class Response (status 300-399) that the handler returns or
\* throws is thrown by the loader as it is: same status, same headers (no
\* Set-Cookie added), no data merged.
C9_RedirectUnmodified ==
    (pc = "done" /\ loaderCall # Undefined /\ IsRedirectResponse(loaderCall.did.value)) =>
      outcome = Thrown(loaderCall.did.value)

C9_Witness ==
    /\ pc = "done"
    /\ loaderCall # Undefined
    /\ loaderCall.did.how = "return"
    /\ IsRedirectResponse(loaderCall.did.value)
    /\ loaderCall.did.value.status = 300
    /\ sessState = "Refreshed"
    /\ outcome.how = "throw"

\* The status of what the loader returned
OutcomeStatus(o) ==
    IF isResponse(o.value) THEN o.value.status ELSE o.value.init.status

\* C10: a non-redirect Response returned by the handler keeps its status and
\* every header, gains the session's Set-Cookie next to its own; a JSON body
\* is parsed and merged with the Auth Context, any other body (not JSON, or
\* declared JSON and failing to parse) is passed on unread and unchanged.
C10_ResponsePassThrough ==
    (/\ pc = "done"
     /\ loaderCall # Undefined
     /\ loaderCall.did.how = "return"
     /\ isResponse(loaderCall.did.value)
     /\ ~IsRedirectResponse(loaderCall.did.value)) =>
      LET r == loaderCall.did.value
          cookie == SessionSetCookie(SessionArg)
      IN  /\ outcome.how = "return"
          /\ OutcomeStatus(outcome) = r.status
          /\ OutcomeHeaders(outcome) =
               IF cookie = Undefined THEN r.headers
               ELSE Append2(r.headers, "set-cookie", cookie)
          /\ IF IsMerged(loaderCall.did)
               THEN /\ isDataWithResponseInit(outcome.value)
                    /\ outcome.value.data = ObjectAssign(JsonParse(r.body.text), auth)
               ELSE /\ isResponse(outcome.value)
                    /\ outcome.value.body = r.body
                    /\ ~outcome.value.bodyUsed

\* The (name, value) pairs a HeadersInit supplies, in order: the entries of a
\* Headers instance or of an array of tuples, the entries of a plain object
\* with an array value giving one pair per item and undefined giving none
RECURSIVE Supplied(_, _)
Supplied(rep, entries) ==
    IF entries = << >> THEN << >>
    ELSE LET name == entries[1][1]
             value == entries[1][2]
             here == IF rep # "object" THEN << << name, value >> >>
                     ELSE IF IsArray(value)
                       THEN [i \in 1..Len(value.items) |-> << name, value.items[i] >>]
                     ELSE IF value = Undefined THEN << >>
                     ELSE << << name, value >> >>
         IN  here \o Supplied(rep, Tail(entries))

SuppliedByInit(init) ==
    IF init = Undefined \/ init.headers = Undefined THEN << >>
    ELSE Supplied(init.headers.rep, init.headers.entries)

\* The values a header list holds for a name, one by one (a combined value
\* "a, b" counts as a and b)
RECURSIVE SplitValues(_)
SplitValues(values) ==
    IF values = << >> THEN << >>
    ELSE (IF values[1].kind = "joined" THEN values[1].values ELSE << values[1] >>)
         \o SplitValues(Tail(values))

ValuesOf(h, name) == SplitValues(HeaderValues(h, name))

HeaderNames(h) == { h[i][1] : i \in 1..Len(h) }

\* C11: the handler returned data with a response init: for every header name
\* it supplied, in whichever representation, the merged headers hold exactly
\* the values it supplied for that name, in order (for Set-Cookie followed by
\* the session's cookie, if there is one), no other name appears, and the
\* status and statusText are the handler's.
C11_InitHeadersMerged ==
    (/\ pc = "done"
     /\ loaderCall # Undefined
     /\ loaderCall.did.how = "return"
     /\ isDataWithResponseInit(loaderCall.did.value)) =>
      LET init == loaderCall.did.value.init
          supplied == SuppliedByInit(init)
          cookie == SessionSetCookie(SessionArg)
          mine == IF cookie = Undefined THEN << >> ELSE << << "set-cookie", cookie >> >>
          merged == OutcomeHeaders(outcome)
      IN  /\ outcome.how = "return"
          /\ isDataWithResponseInit(outcome.value)
          /\ \A name \in HeaderNames(supplied \o mine) \cup HeaderNames(merged) :
                ValuesOf(merged, name) = HeaderValues(supplied \o mine, name)
          /\ init # Undefined =>
                /\ outcome.value.init.status = init.status
                /\ outcome.value.init.statusText = init.statusText

\* The same statement for the representations other than the array of tuples
C11_ExceptTuples ==
    (/\ pc = "done"
     /\ loaderCall # Undefined
     /\ loaderCall.did.how = "return"
     /\ isDataWithResponseInit(loaderCall.did.value)
     /\ loaderCall.did.value.init # Undefined
     /\ loaderCall.did.value.init.headers # Undefined
     /\ loaderCall.did.value.init.headers.rep = "tuples") \/ C11_InitHeadersMerged

NonNull(v) == v # Null /\ v # Undefined

\* The fields the Authorized shape always fills, and those it leaves null
\* when the token or the session does not carry them
AlwaysSet == { "user", "sessionId", "accessToken", "permissions", "entitlements",
               "sealedSession" }
MayBeNull == { "organizationId", "role", "impersonator" }

C13_BadSealIsNoSession ==
    (pc = "done" /\ IsBadSeal(req.cookie)) =>
      IF req.kind = "signOut"
        THEN outcome.how = "return" /\ isResponse(outcome.value)
        ELSE /\ sessState \in { "Anonymous", "AbsentAndRequired" }
             /\ Calls("verifyAccessToken") = << >>
             /\ Calls("authenticateWithRefreshToken") = << >>
             /\ outcome.how = "throw" => IsRedirectResponse(outcome.value)

\* The Location of a redirect
Location(res) == HeaderValues(res.headers, "location")

\* C14: signOut returns, for every request, a redirect whose Set-Cookie
\* destroys the session cookie: with a full session, with an access token
\* that has no sid, and with no session in the cookie.
C14_SignOutAlwaysDestroys ==
    (pc = "done" /\ req.kind = "signOut") =>
      /\ outcome.how = "return"
      /\ IsRedirectResponse(outcome.value)
      /\ SetCookies(outcome) = << [kind |-> "destroy"] >>

\* The same statement for the requests whose cookie holds a session
C14_WithSession ==
    (pc = "done" /\ req.kind = "signOut" /\ req.cookie # Undefined) =>
      /\ outcome.how = "return"
      /\ IsRedirectResponse(outcome.value)
      /\ SetCookies(outcome) = << [kind |-> "destroy"] >>
      /\ Calls("destroySession") = << Ev("destroySession", GetSession(req.cookie)) >>

\* C15: the redirect signOut returns goes to the provider's logout URL for
\* the session id, with returnTo passed along, when the stored token's claims
\* have a session id; otherwise to returnTo, or to "/" when none was given;
\* getLogoutUrl is called only with a session id, and only in the first case.
C15_SignOutTarget ==
    (pc = "done" /\ req.kind = "signOut" /\ outcome.how = "return") =>
      LET sid == getSessionFromCookie(req.cookie).accessToken.sid
      IN  /\ isResponse(outcome.value)
          /\ outcome.value.status = 302
          /\ IF sid # Undefined
               THEN /\ Location(outcome.value) = << getLogoutUrl(sid, req.returnTo) >>
                    /\ Calls("getLogoutUrl") =
                         << Ev("getLogoutUrl", [sessionId |-> sid, returnTo |-> req.returnTo]) >>
               ELSE /\ Location(outcome.value) =
                         << IF req.returnTo = Undefined THEN Concat(<< "/" >>) ELSE req.returnTo >>
                    /\ Calls("getLogoutUrl") = << >>

C15_Witness ==
    /\ pc = "done"
    /\ req.kind = "signOut"
    /\ outcome.how = "return"
    /\ getSessionFromCookie(req.cookie).accessToken.sid = Undefined
    /\ req.returnTo = Str("/login")
    /\ Location(outcome.value) = << Str("/login") >>

\* C18: refreshSession: with no session in the cookie it throws a redirect to
\* the authorization URL and the refresh exchange is not called; with a
\* session the exchange is called exactly once, with the stored refresh token
\* and the organizationId given; when it succeeds the value returned is built
\* from the new access token and carries the Set-Cookie committing the
\* session sealed with the new tokens; when it fails an error is thrown whose
\* cause is the provider's error.
C18_RefreshSession ==
    (pc = "done" /\ req.kind = "refreshSession") =>
      LET stored == getSessionFromCookie(req.cookie)
      IN  IF stored = Null
            THEN /\ outcome = Thrown(Redirect(getAuthorizationUrl(Undefined, Undefined), NoHeaders))
                 /\ Calls("authenticateWithRefreshToken") = << >>
                 /\ Calls("commitSession") = << >>
            ELSE /\ Calls("authenticateWithRefreshToken") =
                      << Ev("authenticateWithRefreshToken",
                            [refreshToken |-> stored.refreshToken,
                             organizationId |-> req.organizationId]) >>
                 /\ IF issued # Undefined
                      THEN LET newSealed == encryptSession(
                                   SessionRecord(issued.accessToken, issued.refreshToken,
                                                 stored.user, stored.impersonator,
                                                 EmptyHeadersObject))
                               a == outcome.value.fields
                           IN  /\ outcome.how = "return"
                               /\ a.accessToken = issued.accessToken
                               /\ a.sessionId = issued.accessToken.sid
                               /\ a.organizationId = issued.accessToken.org_id
                               /\ a.role = issued.accessToken.role
                               /\ a.permissions = issued.accessToken.permissions
                               /\ a.entitlements = issued.accessToken.entitlements
                               /\ a.user = stored.user
                               /\ a.sealedSession = newSealed
                               /\ a.headers.entries =
                                    << << "set-cookie", [kind |-> "commit", jwt |-> newSealed] >> >>
                               /\ Len(Calls("commitSession")) = 1
                      ELSE /\ outcome.how = "throw"
                           /\ outcome.value.type = "Error"
                           /\ Len(Calls("refreshRejected")) = 1
                           /\ outcome.value.cause = Calls("refreshRejected")[1].arg
                           /\ Calls("commitSession") = << >>

C18_Witness ==
    /\ pc = "done"
    /\ req.kind = "refreshSession"
    /\ req.organizationId = Str("org-2")
    /\ issued # Undefined
    /\ outcome.how = "return"
    /\ outcome.value.fields.accessToken # getSessionFromCookie(req.cookie).accessToken

\* The session refreshSession seals for the tokens issued
NewSealed ==
    LET stored == getSessionFromCookie(req.cookie)
    IN  encryptSession(SessionRecord(issued.accessToken, issued.refreshToken,
                                     stored.user, stored.impersonator, EmptyHeadersObject))

\* The refresh exchange was rejected with one of these codes
RejectedWith(codes) ==
    /\ Calls("refreshRejected") # << >>
    /\ Calls("refreshRejected")[1].arg.error \in codes

\* C16: switchToOrganization throws nothing but the redirect refreshSession
\* raised; after a successful exchange it returns a redirect to returnTo when
\* one was given and otherwise data {success: true, auth}, each with the
\* Set-Cookie of the newly committed session; when the exchange fails with
\* anything but sso_required / mfa_enrollment it returns data
\* {success: false, error: <message>} with status 400.
C16_SwitchNeverThrows ==
    (pc = "done" /\ req.kind = "switchToOrganization") =>
      /\ outcome.how = "throw" =>
           /\ IsRedirectResponse(outcome.value)
           /\ outcome.value = caught
           /\ Calls("authenticateWithRefreshToken") = << >>
      /\ issued # Undefined =>
           /\ outcome.how = "return"
           /\ SetCookies(outcome) = << [kind |-> "commit", jwt |-> NewSealed] >>
           /\ IF req.returnTo # Undefined
                THEN /\ IsRedirectResponse(outcome.value)
                     /\ Location(outcome.value) = << req.returnTo >>
                ELSE /\ isDataWithResponseInit(outcome.value)
                     /\ Keys(outcome.value.data) = { "success", "auth" }
                     /\ outcome.value.data.fields.success = Bool(TRUE)
                     /\ outcome.value.data.fields.auth.fields.accessToken = issued.accessToken
      /\ (Calls("refreshRejected") # << >> /\ ~RejectedWith(StepUpCodes)) =>
           /\ outcome.how = "return"
           /\ isDataWithResponseInit(outcome.value)
           /\ outcome.value.data =
                Obj([success |-> Bool(FALSE),
                     error |-> Concat(<< "Failed to refresh session: ",
                                         Calls("refreshRejected")[1].arg.message >>)])
           /\ outcome.value.init.status = 400
           /\ SetCookies(outcome) = << >>

C16_Witness ==
    /\ pc = "done"
    /\ req.kind = "switchToOrganization"
    /\ issued # Undefined
    /\ req.returnTo = Undefined
    /\ outcome.how = "return"
    /\ isDataWithResponseInit(outcome.value)
    /\ SetCookies(outcome) # << >>

\* C17: the refresh exchange started by switchToOrganization is rejected with
\* the code sso_required or mfa_enrollment: the result is a returned redirect
\* to the authorization URL built for the target organization, not the
\* {success: false} data.
C17_StepUpRedirect ==
    (pc = "done" /\ req.kind = "switchToOrganization" /\ RejectedWith(StepUpCodes)) =>
      /\ caught = RefreshFailure(Calls("refreshRejected")[1].arg)
      /\ outcome = Returned(Redirect(getAuthorizationUrl(Undefined, req.organizationId),
                                     NoHeaders))
      /\ Location(outcome.value)[1].organizationId = req.organizationId

C17_Witness ==
    /\ pc = "done"
    /\ req.kind = "switchToOrganization"
    /\ RejectedWith({ Str("mfa_enrollment") })
    /\ outcome.how = "return"
    /\ IsRedirectResponse(outcome.value)

\* The state parameter is absent, "null", or what getAuthorizationUrl encodes
WellFormedState(state) == ReturnPathnameOfState(state).how = "return"

CallbackResult ==
    /\ outcome.how = "return"
    /\ \/ /\ IsRedirectResponse(outcome.value)
          /\ issued # Undefined
          /\ SetCookies(outcome) =
               << [kind |-> "commit",
                   jwt |-> encryptSession(SessionRecord(issued.accessToken, issued.refreshToken,
                                                        issued.user, issued.impersonator,
                                                        EmptyHeadersObject))] >>
       \/ /\ outcome.value = errorResponse
          /\ outcome.value.init.status = 500
          /\ \/ Calls("commitSession") = << >>
             \/ Calls("onSuccess") # << >>

\* C19: for every callback request with a code, whatever its state parameter
\* is, the loader returns a redirect carrying the Set-Cookie of the session
\* it committed, or the error payload with status 500; it throws nothing.
C19_CallbackNeverThrows ==
    (pc = "done" /\ req.kind = "callback" /\ req.code # Null) => CallbackResult

\* The same statement for the requests whose state parameter decodes
C19_WellFormedState ==
    (pc = "done" /\ req.kind = "callback" /\ req.code # Null /\ WellFormedState(req.state)) =>
      CallbackResult

\* Index of the first configure call, 0 when there is none yet
RECURSIVE FirstConfigure(_)
FirstConfigure(i) ==
    IF i > Len(tasks) THEN 0
    ELSE IF tasks[i].op = "configure" THEN i ELSE FirstConfigure(i + 1)

\* The storage handle the first configure call determines
HandleOf(config) ==
    LET name == IF config.cookieName = Undefined THEN DefaultCookieName ELSE config.cookieName
    IN  [storage    |-> IF config.storage = Undefined
                          THEN [kind |-> "storage", made |-> "createCookieSessionStorage",
                                name |-> name]
                          ELSE config.storage,
         cookieName |-> name]

C21_UnconfiguredStorageFails ==
    \A i \in 1..Len(tasks) :
       (tasks[i].op = "getSessionStorage" /\ (FirstConfigure(1) = 0 \/ i < FirstConfigure(1))) =>
          /\ tasks[i].at = "done"
          /\ tasks[i].result = Thrown(StorageError)

C21_Witness ==
    /\ Len(tasks) = 3
    /\ tasks[1].op = "getSessionStorage"
    /\ tasks[1].result.how = "throw"
    /\ tasks[2].op = "configure"
    /\ tasks[2].at = "done"
    /\ tasks[3].op = "getSessionStorage"
    /\ tasks[3].at = "done"
    /\ tasks[3].result.how = "return"

\* Position of the first call of a name in the trace, 0 when there is none
RECURSIVE CallAt(_, _)
CallAt(name, i) ==
    IF i > Len(trace) THEN 0
    ELSE IF trace[i].ev = name THEN i ELSE CallAt(name, i + 1)

\* onSessionRefreshSuccess was called once, after the successful exchange and
\* before the handler
SuccessCalledInOrder ==
    /\ Len(Calls("onSessionRefreshSuccess")) = 1
    /\ CallAt("commitSession", 1) # 0
    /\ CallAt("commitSession", 1) < CallAt("onSessionRefreshSuccess", 1)
    /\ CallAt("loader", 1) # 0 => CallAt("onSessionRefreshSuccess", 1) < CallAt("loader", 1)

\* C22: in a request that supplies onSessionRefreshSuccess, the callback is
\* called exactly when the session was refreshed in this request: once, after
\* the exchange and before the handler; for a session whose stored access
\* token verified (state Valid) it is not called.
C22_SuccessCallbackIffRefreshed ==
    (pc \in { "handle", "done" } /\ req.kind = "request" /\ req.onSessionRefreshSuccess) =>
      IF sessState = "Refreshed"
        THEN SuccessCalledInOrder
        ELSE Calls("onSessionRefreshSuccess") = << >>

\* The same statement without the Valid state
C22_ExceptValid ==
    (pc \in { "handle", "done" } /\ sessState = "Valid") \/ C22_SuccessCallbackIffRefreshed

\* The handler returned data that holds this value as accessToken
HandlerReturnedToken(token) ==
    /\ loaderCall # Undefined
    /\ IsMerged(loaderCall.did)
    /\ LET h == HandlerData(loaderCall.did.value)
       IN  /\ h.kind = "object"
           /\ "accessToken" \in Keys(h)
           /\ h.fields.accessToken = token

\* C23: the Auth Context merged into the loader's output has no accessToken
\* field, and the data the loader returns for a request with a session holds
\* the session's access token only if the handler returned it.
C23_NoAccessTokenInData ==
    (/\ pc = "done"
     /\ req.kind = "request"
     /\ outcome.how = "return"
     /\ isDataWithResponseInit(outcome.value)
     /\ auth # Undefined) =>
      /\ "accessToken" \notin Keys(auth)
      /\ (/\ session # Null
          /\ "accessToken" \in Keys(outcome.value.data)
          /\ outcome.value.data.fields.accessToken = session.accessToken) =>
            HandlerReturnedToken(session.accessToken)

\* C24: withAuth calls neither the refresh exchange nor the sealing, commit or
\* destruction of a session and sets no cookie; it returns the user
\* information of the stored session exactly when the cookie holds a session
\* whose access token has an exp claim later than the current time, and
\* {user: null} otherwise.
C24_WithAuthReadOnly ==
    (pc = "done" /\ req.kind = "withAuth") =>
      LET stored == getSessionFromCookie(req.cookie)
      IN  /\ trace = << >>
          /\ issued = Undefined
          /\ SetCookies(outcome) = << >>
          /\ outcome.how = "return"
          /\ IF /\ stored # Null
                /\ "exp" \in DOMAIN stored.accessToken
                /\ stored.accessToken.exp * 1000 > req.now
               THEN /\ Keys(outcome.value) = { "user", "sessionId", "organizationId", "role",
                                               "permissions", "entitlements", "impersonator",
                                               "accessToken" }
                    /\ outcome.value.fields.user = stored.user
                    /\ outcome.value.fields.accessToken = stored.accessToken
                    /\ outcome.value.fields.sessionId = stored.accessToken.sid
                    /\ outcome.value.fields.organizationId = stored.accessToken.org_id
               ELSE outcome.value = Obj([user |-> Null])

C24_Witness ==
    /\ pc = "done"
    /\ req.kind = "withAuth"
    /\ req.cookie # Undefined
    /\ "exp" \in DOMAIN getSessionFromCookie(req.cookie).accessToken
    /\ getSessionFromCookie(req.cookie).accessToken.exp = 2
    /\ req.now = 1999
    /\ outcome.value.fields.user # Null

\* C25: verifyAccessToken never throws into its caller: a request whose cookie
\* holds a session ends with the session found valid or with a refresh
\* exchange attempted, never with what the verification threw.
C25_VerifyNeverThrows ==
    (pc = "done" /\ req.kind = "request" /\ Stored # Null) =>
      /\ sessState \in { "Valid", "Refreshed", "RefreshFailed" }
      /\ Calls("verifyAccessToken") # << >>
      /\ sessState # "Valid" => Calls("authenticateWithRefreshToken") # << >>
      /\ outcome # Thrown(MissingApiKey)

\* C26: an error that is no Response, thrown by the handler, leaves
\* authkitLoader as it was thrown: no redirect is made of it, the session
\* cookie is not destroyed and onSessionRefreshError is not called.
C26_HandlerErrorPropagates ==
    (pc = "done" /\ req.kind = "request" /\ loaderCall # Undefined
       /\ loaderCall.did = Thrown(HandlerError)) =>
      /\ outcome = Thrown(HandlerError)
      /\ Calls("destroySession") = << >>
      /\ Calls("onSessionRefreshError") = << >>
      /\ caught = Undefined
      /\ errorCallback = Undefined

C26_Witness ==
    /\ pc = "done"
    /\ req.kind = "request"
    /\ req.onSessionRefreshError
    /\ sessState = "Refreshed"
    /\ loaderCall # Undefined
    /\ loaderCall.did = Thrown(HandlerError)
    /\ outcome = Thrown(HandlerError)

\* The configure calls that gave a value for the key
ExplicitCalls(key) ==
    { i \in 1..Len(configCalls) :
        /\ configCalls[i].configOrSource.kind = "values"
        /\ key \in DOMAIN configCalls[i].configOrSource.values }

\* The configure calls that gave a value source
SourceCalls ==
    { i \in 1..Len(configCalls) :
        configCalls[i].configOrSource.kind = "function" \/ configCalls[i].source # Undefined }

Latest(calls) == CHOOSE i \in calls : \A j \in calls : j <= i

\* The value source in force: the last one given, else the process environment
SourceInForce ==
    IF SourceCalls = {} THEN FunctionSource(settings.processEnv)
    ELSE LET call == configCalls[Latest(SourceCalls)]
         IN  IF call.configOrSource.kind = "function" THEN call.configOrSource ELSE call.source

\* A value of the source, as it is or converted to the type of the key
AsGiven(key, value) ==
    { value }
    \cup (IF key = "apiHttps" THEN { Bool(value.value = "true") } ELSE {})
    \cup (IF key = "cookieMaxAge" THEN { ParseInt(value) } ELSE {})

BuiltInDefault(key) ==
    CASE key = "apiHttps"     -> Bool(TRUE)
      [] key = "cookieName"   -> Str("wos-session")
      [] key = "cookieMaxAge" -> Num(34560000)
      [] OTHER                -> Undefined

\* What getConfig is to return for the key, given the value that stands for
\* a key that neither a configure call nor the source gives
Resolves(read, fallback) ==
    LET given == SourceValue(SourceInForce, getEnvironmentVariableName(read.key))
    IN  IF ExplicitCalls(read.key) # {}
          THEN read.value =
                 configCalls[Latest(ExplicitCalls(read.key))].configOrSource.values[read.key]
        ELSE IF given # Undefined
          THEN read.value \in AsGiven(read.key, given)
        ELSE read.value = fallback

\* C27: after any sequence of configure calls, getConfig(key) returns the
\* value given for the key in a configure call if there is one, otherwise the
\* value the value source gives for the WORKOS_ name of the key, otherwise
\* the built-in default of the key.
C27_ResolutionOrder ==
    configRead # Undefined => Resolves(configRead, BuiltInDefault(configRead.key))

\* The same order, where a key nobody gives reads as undefined
C27_ExceptDefaults ==
    configRead # Undefined => Resolves(configRead, Undefined)

\* C28: configure throws when it is given a cookiePassword shorter than 32
\* characters, and getConfig never returns such a password.
C28_ShortPasswordRejected ==
    /\ \A i \in 1..Len(configCalls) :
          LET given == configCalls[i].configOrSource
          IN  (/\ given.kind = "values"
               /\ "cookiePassword" \in DOMAIN given.values
               /\ Len(given.values["cookiePassword"].value) < 32)
                => configCalls[i].did.how = "throw"
    /\ (/\ configRead # Undefined
        /\ configRead.key = "cookiePassword"
        /\ configRead.value # Undefined)
         => Len(configRead.value.value) >= 32

\* What is read back from the seal of a session that encryptSession made
ReadBack(s) == getSessionFromCookie(encryptSession(s))

SealedSessions == { trace[i].arg : i \in { j \in 1..Len(trace) : trace[j].ev = "encryptSession" } }

\* C29: encryptSession seals accessToken, refreshToken, user and impersonator
\* of the session, not its headers, with ttl 0; what getSessionFromCookie
\* reads back equals the session apart from headers.
C29_SealsWithoutHeaders ==
    \A s \in SealedSessions :
       /\ encryptSession(s).ttl = 0
       /\ ReadBack(s).accessToken = s.accessToken
       /\ ReadBack(s).refreshToken = s.refreshToken
       /\ ReadBack(s).user = s.user
       /\ ReadBack(s).impersonator = s.impersonator
       /\ ReadBack(s).headers = Undefined

\* The same without the exclusion of headers
C29_ExceptHeaders ==
    \A s \in SealedSessions :
       /\ encryptSession(s).ttl = 0
       /\ ReadBack(s).accessToken = s.accessToken
       /\ ReadBack(s).refreshToken = s.refreshToken
       /\ ReadBack(s).user = s.user
       /\ ReadBack(s).impersonator = s.impersonator

\* C30: when authkitLoader refreshes a stored session, the refresh exchange
\* is called with the organizationId of the claims of the stored access token.
C30_RefreshKeepsOrganization ==
    (req.kind = "request" /\ Calls("authenticateWithRefreshToken") # << >>) =>
      Calls("authenticateWithRefreshToken")[1].arg.organizationId =
        getClaimsFromAccessToken(Stored.accessToken).organizationId

\* C37: when the first configure call fails while it builds the default
\* storage, every configure and getSessionStorage call from it on fails with
\* the same error and no storage is ever kept, also for calls made with the
\* configuration corrected or with a storage of the application.
C37_FirstFailureIsPermanent ==
    LET first == FirstConfigure(1)
    IN  (manager.configPromise # Null /\ manager.configPromise.state = "rejected") =>
          /\ first # 0
          /\ tasks[first].config.storage = Undefined
          /\ manager.storage = Null
          /\ \A i \in 1..Len(tasks) :
                (i >= first /\ tasks[i].at = "done") =>
                   tasks[i].result = Thrown(MissingRedirectUri)

C37_Witness ==
    /\ Len(tasks) = 3
    /\ manager.configPromise = RejectedPromise(MissingRedirectUri)
    /\ tasks[1].op = "configure"
    /\ tasks[1].at = "done"
    /\ tasks[2].op = "configure"
    /\ tasks[2].config.storage = CustomStorage
    /\ tasks[2].at = "done"
    /\ tasks[2].result = Thrown(MissingRedirectUri)
    /\ tasks[3].op = "getSessionStorage"
    /\ tasks[3].at = "done"
    /\ tasks[3].result = Thrown(MissingRedirectUri)

\* C31: the callback loader completes a valid code exchange whatever ran
\* before it in the process: also as the first call after a cold start it
\* obtains a session storage, commits the session and returns the redirect
\* with the Set-Cookie of the sealed session.
C31_CallbackAfterColdStart ==
    (pc = "done" /\ req.kind = "callback" /\ req.exchange.how = "return") =>
      /\ outcome.how = "return"
      /\ IsRedirectResponse(outcome.value)
      /\ Calls("commitSession") # << >>
      /\ SetCookies(outcome) = << Calls("commitSession")[1].arg >>

\* The same for a process in which configure was called before
C31_ExceptColdStart ==
    (pc = "done" /\ req.kind = "callback" /\ req.exchange.how = "return"
       /\ req.manager.configPromise # Null) =>
      /\ outcome.how = "return"
      /\ IsRedirectResponse(outcome.value)
      /\ Calls("commitSession") # << >>
      /\ SetCookies(outcome) = << Calls("commitSession")[1].arg >>

\* C32: whenever the refresh exchange succeeded during an authkitLoader
\* request, what authkitLoader returns or throws for the request carries the
\* Set-Cookie of the newly committed session, whatever the handler did.
C32_RefreshedCookieReachesClient ==
    (pc = "done" /\ req.kind = "request" /\ sessState = "Refreshed") =>
      InSeq(Calls("commitSession")[1].arg, SetCookies(outcome))

\* The same for the requests whose handler, if any, returned a value that is
\* no redirect
C32_ExceptThrown ==
    (pc = "done" /\ req.kind = "request" /\ sessState = "Refreshed"
       /\ outcome.how = "return") =>
      InSeq(Calls("commitSession")[1].arg, SetCookies(outcome))

\* The Auth Context of the current request is an authorized one
Authorized ==
    /\ req.kind = "request"
    /\ pc \in { "handle", "done" }
    /\ auth # Undefined
    /\ auth.fields.user # Null

\* C33: in every authorized Auth Context of authkitLoader, sealedSession is
\* the sealed form of the session the context describes; after a refresh it
\* is the newly sealed value committed in the Set-Cookie header, not the
\* value of the request's cookie.
C33_SealedSessionIsCurrent ==
    Authorized =>
      /\ UnsealData(auth.fields.sealedSession).accessToken = auth.fields.accessToken
      /\ UnsealData(auth.fields.sealedSession).refreshToken = session.refreshToken
      /\ sessState = "Refreshed" =>
           auth.fields.sealedSession = Calls("commitSession")[1].arg.jwt

\* The same for the sessions that were not refreshed
C33_ExceptRefreshed ==
    (Authorized /\ sessState # "Refreshed") =>
      /\ UnsealData(auth.fields.sealedSession).accessToken = auth.fields.accessToken
      /\ UnsealData(auth.fields.sealedSession).refreshToken = session.refreshToken

\* A request in which a refresh exchange succeeded and the session was committed
Refreshing ==
    /\ req.kind \in { "request", "refreshSession" }
    /\ issued # Undefined
    /\ Calls("commitSession") # << >>

\* C34: a refresh, in authkitLoader or in refreshSession, changes only the
\* tokens: the newly sealed session has the user and the impersonator of the
\* stored session and the access token and refresh token the provider
\* returned; the previous refresh token is not in it.
C34_RefreshChangesOnlyTokens ==
    Refreshing =>
      LET sealed == UnsealData(Calls("commitSession")[1].arg.jwt)
      IN  /\ Len(Calls("commitSession")) = 1
          /\ sealed.user = Stored.user
          /\ sealed.impersonator = Stored.impersonator
          /\ sealed.accessToken = issued.accessToken
          /\ sealed.refreshToken = issued.refreshToken
          /\ issued.refreshToken # Stored.refreshToken =>
               sealed.refreshToken # Stored.refreshToken

C34_Witness ==
    /\ Refreshing
    /\ req.kind = "request"
    /\ pc = "done"
    /\ Truthy(Stored.impersonator)
    /\ issued.refreshToken # Stored.refreshToken
    /\ UnsealData(Calls("commitSession")[1].arg.jwt).impersonator = Stored.impersonator

\* C35: when the refresh exchange failed and onSessionRefreshError returned
\* a value that is no Response, or threw something that is no Response,
\* authkitLoader throws the redirect to '/' whose Set-Cookie destroys the
\* session; what the callback threw is not what the caller gets.
C35_CallbackFallsBackToDefault ==
    (pc = "done" /\ req.kind = "request" /\ errorCallback # Undefined
       /\ ~isResponse(errorCallback.value)) =>
      /\ sessState = "RefreshFailed"
      /\ outcome = Thrown(RedirectDestroying(Concat(<< "/" >>), GetSession(req.cookie)))
      /\ SetCookies(outcome) = << DestroySession(GetSession(req.cookie)) >>
      /\ outcome.value # errorCallback.value
      /\ Len(Calls("onSessionRefreshError")) = 1

C35_Witness ==
    /\ pc = "done"
    /\ req.kind = "request"
    /\ errorCallback = Thrown(CallbackError)
    /\ IsRedirectResponse(outcome.value)

\* The calls of a name made by the request in flight
CallsOf(r, name) == SelectSeq(r.calls, LAMBDA e : e.ev = name)

\* C36: requests in flight together with the same cookie and an access token
\* that does not verify are handled apart: each verifies the token itself,
\* each calls the refresh exchange exactly once with the stored refresh
\* token, and what each gives depends on the answer to its own exchange only.
C36_RequestsAreIsolated ==
    \A i \in 1..Len(inflight) :
       LET r == inflight[i]
           stored == getSessionFromCookie(r.cookie)
       IN  (r.pc = "done" /\ r.sessState \in { "Refreshed", "RefreshFailed" }) =>
             /\ CallsOf(r, "verifyAccessToken") =
                  << Ev("verifyAccessToken", stored.accessToken) >>
             /\ CallsOf(r, "authenticateWithRefreshToken") =
                  << Ev("authenticateWithRefreshToken", RefreshArgs(stored)) >>
             /\ r.answer # Undefined
             /\ r.sessState = "Refreshed" <=> r.answer.how = "return"
             /\ r.answer.how = "return" =>
                  /\ r.outcome = RefreshedOutcome(r.cookie, r.answer.value)
                  /\ \E c \in { SetCookies(r.outcome)[k] : k \in 1..Len(SetCookies(r.outcome)) } :
                        /\ c.kind = "commit"
                        /\ UnsealData(c.jwt).refreshToken = r.answer.value.refreshToken
             /\ r.answer.how = "throw" =>
                  r.outcome = Thrown(RedirectDestroying(Concat(<< "/" >>), GetSession(r.cookie)))

C36_Witness ==
    /\ Len(inflight) = 3
    /\ \A i \in 1..3 : inflight[i].pc = "done" /\ inflight[i].cookie = inflight[1].cookie
    /\ inflight[1].sessState = "Refreshed"
    /\ inflight[2].sessState = "RefreshFailed"
    /\ inflight[3].sessState = "Refreshed"

\* The callback route has answered a valid code with its redirect
CallbackRedirected ==
    /\ pc = "done"
    /\ req.kind = "callback"
    /\ issued # Undefined
    /\ outcome.how = "return"
    /\ IsRedirectResponse(outcome.value)

\* The returnPathname in force: of the state, else of the options, else "/"
ChosenReturnPathname ==
    LET fromState == ReturnPathnameOfState(req.state).value
    IN  IF fromState # Null /\ fromState # Undefined THEN fromState
        ELSE IF req.returnPathname # Undefined THEN req.returnPathname
        ELSE Concat(<< "/" >>)

\* The part of a path before its "?"
PathPart(parts) ==
    IF QueryAt(parts, 1) > 0 THEN SubSeq(parts, 1, QueryAt(parts, 1) - 1) ELSE parts

\* The pairs of the query after its "?"
QueryPart(parts) ==
    IF QueryAt(parts, 1) > 0
      THEN ParseSearch(SubSeq(parts, QueryAt(parts, 1) + 1, Len(parts))) ELSE << >>

C39_SignInRoundTrip ==
    (req.kind = "callback" /\ "from" \in DOMAIN req /\ issued # Undefined) =>
      /\ outcome.how = "return"
      /\ IsRedirectResponse(outcome.value)
      /\ HeaderValues(outcome.value.headers, "location")[1].pathname = req.from.pathname
      /\ HeaderValues(outcome.value.headers, "location")[1].searchParams = req.from.searchParams

C39_Witness ==
    /\ req.kind = "callback"
    /\ "from" \in DOMAIN req
    /\ issued # Undefined
    /\ req.returnPathname = Concat(<< "/", "home" >>)
    /\ req.from.searchParams = << << "tab", "1" >> >>
    /\ HeaderValues(outcome.value.headers, "location")[1].pathname = << "/", "dashboard" >>

\* C39, for the requests whose path does not start with two slashes or has
\* no query: the round trip keeps path and query.
C39_ExceptDoubleSlash ==
    (/\ req.kind = "callback" /\ "from" \in DOMAIN req /\ issued # Undefined
     /\ (req.from.pathname[1] # ProtocolRelative \/ req.from.searchParams = << >>)) =>
      /\ outcome.how = "return"
      /\ IsRedirectResponse(outcome.value)
      /\ HeaderValues(outcome.value.headers, "location")[1].pathname = req.from.pathname
      /\ HeaderValues(outcome.value.headers, "location")[1].searchParams = req.from.searchParams

====
